---- MODULE Spec2Model ----
(***************************************************************************)
(* Shared memory buffers in WebAssembly: the terminal host (host.c), the   *)
(* terminal container (container.c) and the guest module (module.c), and   *)
(* the GTK demo (its host.c, container.c, hunter.c and runner.c).           *)
(*                                                                         *)
(* One host process creates two POSIX shared memory objects, forks two     *)
(* container processes and drives them with one-byte commands over pipes.  *)
(* Every process is single threaded; the processes interleave freely.      *)
(***************************************************************************)
EXTENDS Integers, Sequences, FiniteSets, TLC

VARIABLES
  cmds,      \* host main: the command list, pairs <<container index, command byte>>
  hpc,       \* host: position in main
  i,         \* host main: loop index into cmds (1-based)
  nfork,     \* host main: number of fork_container calls completed or in progress
  hres,      \* host: result of the last send (TRUE before the first)
  reaped,    \* host: children reaped by wait
  p2c,       \* pipes[c].p2c: bytes written by the host, not yet read by container c
  c2p,       \* pipes[c].c2p: bytes written by container c, not yet read by the host
  cpc,       \* container c: position in main / command_loop
  cur,       \* container c: cmd, the command byte being handled
  funcs,     \* container c: wc.funcs are set (init_module has succeeded)
  opened,    \* container c: flags of its last shm_open of each region ("none" before)
  prot,      \* container c: protection of its mapping of each region
  shm,       \* the named shared memory objects: "absent", "linked" or "unlinked"
  hostmap,   \* host: the regions it has mapped
  mem,       \* the bytes of the two shared regions
  unlinks,   \* number of shm_unlink calls that removed the name, per region
  written,   \* history: pairs written by the host, in order
  executed,  \* history: pairs handled by the containers, in order
  acks,      \* history: <<container, command, ack byte>> written by the containers
  qdone,     \* history: containers that handled 'q' with their module initialised
  faults,    \* history: what failed in the surroundings (InitEnds but "ok", "notrap",
             \* "munmap", "shm_unlink")
  enable_host_modify,  \* GTK host: ctx.enable_host_modify
  args,      \* inputs of the function under check (function specifications only)
  ret        \* its result, <<>> before it is applied

protoVars == <<cmds, hpc, i, nfork, hres, reaped, p2c, c2p, cpc, cur, funcs, opened, prot,
               shm, hostmap, mem, unlinks, written, executed, acks, qdone, faults,
               enable_host_modify>>
pureVars == <<args, ret>>
vars == <<protoVars, pureVars>>

----------------------------------------------------------------------------
(* Bounds of the model *)

\* longest arbitrary command list the host is configured with
MaxCmds == 2
\* scaled-down kReadOnlyBufSize (5000 in host.c)
RoSize == 8
\* scaled-down kReadWriteBufSize (1000 in host.c); holds the 13 bytes write_rw touches
RwSize == 16
\* longest run of bytes given to write_rw and read_rw as functions
MaxRwLen == 3
\* largest region size given to setup_shared_buf and scan_shared as functions
MaxPatternSize == 30
\* scaled-down width of size_t and of pointers (64 bits in the build)
WordBits == 10
\* scaled-down width of int (32 bits in the build)
IntBits == 8
\* the region sizes given to the mapper are 0..SmallSizes and the same number
\* of values up to the largest int
SmallSizes == 9
\* the page sizes are 2^1 .. 2^PageBits (sysconf(_SC_PAGESIZE) is a power of two)
PageBits == 4
\* scaled-down GRID_W and GRID_H (50 and 30 in common.h): two interior cells
GridW == 4
GridH == 3
\* scaled-down N_BLOCKS (150 in common.h)
NBlocks == 1
\* scaled-down N_RUNNERS (15 in common.h)
NRunners == 1
\* most timer ticks the GTK host runs
MaxTicks == 1

----------------------------------------------------------------------------
(* Constants of the program *)

\* pipes[0] is container "A", pipes[1] is container "B"
Containers == {0, 1}
Regions == {"ro", "rw"}

\* the command codes of command_loop
CommandCodes == {"i", "v", "m", "w", "r", "q", "e", "x"}
\* a byte that is no command code
UnknownCode == "?"
CmdBytes == CommandCodes \cup {UnknownCode}
ReadyByte == "@"
FailureByte == "*"
\* the initial value of the ack and cmd locals
NoByte == "-"
Bytes == CmdBytes \cup {ReadyByte, FailureByte, NoByte}

Pairs == Containers \X CmdBytes

\* host.c: the three command lists of main (two of them commented out)
CrashCmds == << <<1, "x">>, <<0, "i">>, <<0, "q">>, <<0, "x">> >>
SequentialCmds == << <<0, "i">>, <<0, "w">>, <<0, "x">>, <<1, "i">>, <<1, "r">>, <<1, "x">> >>
ShippedCmds == << <<0, "i">>, <<0, "v">>, <<1, "i">>, <<1, "v">>, <<0, "m">>,
                  <<0, "w">>, <<1, "r">>, <<1, "m">>, <<0, "x">>, <<1, "x">> >>

\* further lists the host can be built with: two containers initialised, then a
\* write, a write through the read-only mapping, a verification; one container
\* initialised, then a trap, a read before any write, an unknown byte, a
\* verification after a write, two stress allocations
ScenarioCmds ==
  { << <<0, "i">>, <<1, "i">>, <<0, "q">>, <<1, "v">> >>,
    << <<0, "i">>, <<0, "w">>, <<1, "i">>, <<0, "q">> >>,
    << <<0, "i">>, <<1, "i">>, <<1, "q">>, <<0, "v">> >>,
    << <<0, "i">>, <<0, "e">>, <<0, "v">>, <<0, "x">>, <<1, "x">> >>,
    << <<0, "i">>, <<0, "r">>, <<0, "x">>, <<1, "x">> >>,
    << <<0, "i">>, <<0, "?">>, <<0, "x">>, <<1, "x">> >>,
    << <<0, "i">>, <<0, "w">>, <<0, "v">>, <<0, "x">>, <<1, "x">> >>,
    << <<0, "i">>, <<0, "m">>, <<0, "m">>, <<0, "x">>, <<1, "x">> >>,
    << <<0, "i">>, <<0, "v">>, <<0, "r">>, <<0, "x">>, <<1, "x">> >> }

CmdLists ==
  {CrashCmds, SequentialCmds, ShippedCmds} \cup ScenarioCmds
    \cup UNION {[1..k -> Pairs] : k \in 0..MaxCmds}

\* container.c write_to_rw / read_from_rw: fn_call(FN_WRITE_RW, 3, 20, 10)
RwPos == 3
RwVal == 20
RwLen == 10
\* common.h: #define SCARE_DIST 10
SCARE_DIST == 10
\* GTK host.c tick: for (int i = 0; i < 5; i++)
HostToggles == 5

----------------------------------------------------------------------------
(* host.c setup_shared_buf and module.c: the content of the regions *)

\* ASCII codes of "ro:", "rw:" and "buf"
ModePrefix(mode) == IF mode = "ro" THEN <<114, 111, 58>> ELSE <<114, 119, 58>>
BufToken == <<98, 117, 102>>

\* char v[2] = { 131, 173 }; shared[i] = v[i % 2]
FillByte(k) == IF k % 2 = 0 THEN 131 ELSE 173

\* the region right after ftruncate: zero filled
ZeroBuf(size) == [k \in 0..(size - 1) |-> 0]

\* setup_shared_buf whose fill loop runs one byte too far: i <= size - 3
setup_shared_buf_long_fill(size, mode) ==
  [k \in 0..(size - 1) |->
     IF k >= 3 /\ k <= size - 3 THEN FillByte(k)
     ELSE IF k >= size - 3 THEN BufToken[k - (size - 3) + 1]
     ELSE ModePrefix(mode)[k + 1]]

\* sprintf(shared, "%s:", mode); sprintf(shared + size - 3, "buf"); the fill loop
\* for i in 3..size-4 (the fill overwrites the NUL the first sprintf left at 3)
setup_shared_buf(size, mode) ==
  [k \in 0..(size - 1) |->
     IF k >= 3 /\ k < size - 3 THEN FillByte(k)
     ELSE IF k >= size - 3 THEN BufToken[k - (size - 3) + 1]
     ELSE ModePrefix(mode)[k + 1]]

\* memcmp(buf + off, token, 3) != 0
Differs3(buf, off, token) == \E k \in 0..2 : buf[off + k] # token[k + 1]

\* module.c scan_shared: 1 prefix mismatch, 2 suffix mismatch, otherwise the index
\* of the first wrong fill byte, 0 when clean
scan_shared(buf, size, prefix) ==
  IF Differs3(buf, 0, prefix) THEN 1
  ELSE IF Differs3(buf, size - 3, BufToken) THEN 2
  ELSE LET bad == {k \in 3..(size - 4) : buf[k] # FillByte(k)}
       IN IF bad = {} THEN 0 ELSE CHOOSE k \in bad : \A j \in bad : k <= j

\* verify_shared that scans both regions with the size of the read-only one
verify_shared_one_size(m) ==
  LET res == scan_shared(m.ro, RoSize, ModePrefix("ro"))
  IN IF res = 0 THEN scan_shared(m.rw, RoSize, ModePrefix("rw")) ELSE res

\* module.c verify_shared
verify_shared(m) ==
  LET res == scan_shared(m.ro, RoSize, ModePrefix("ro"))
  IN IF res = 0 THEN scan_shared(m.rw, RwSize, ModePrefix("rw")) ELSE res

\* the i32 argument of an export received in an unsigned char parameter
ToUChar(v) == v % 256

\* module.c write_rw: *p++ = val++ on unsigned char, len times from rw_buf + pos
write_rw(buf, pos, val, len) ==
  [k \in DOMAIN buf |->
     IF k >= pos /\ k < pos + len THEN (ToUChar(val) + (k - pos)) % 256 ELSE buf[k]]

\* read_rw that compares every byte with val, without the increment
read_rw_fixed_val(buf, pos, val, len) ==
  IF \E k \in pos..(pos + len - 1) : buf[k] # ToUChar(val) THEN 1 ELSE 0

\* module.c read_rw: 1 at the first byte that differs from val++, else 0
read_rw(buf, pos, val, len) ==
  IF \E k \in pos..(pos + len - 1) : buf[k] # (ToUChar(val) + (k - pos)) % 256 THEN 1 ELSE 0

----------------------------------------------------------------------------
(* container.c page_align: size_t arithmetic *)

\* size_t values are 0 .. Word - 1; sums and differences wrap
Word == 2 ^ WordBits
PageSizes == {2 ^ k : k \in 1..PageBits}

\* x & y
RECURSIVE BitAnd(_, _)
BitAnd(x, y) ==
  IF x = 0 \/ y = 0 THEN 0
  ELSE (x % 2) * (y % 2) + 2 * BitAnd(x \div 2, y \div 2)

\* ~x
BitNot(x) == Word - 1 - x

\* page_align that masks p itself: (p & ~(page_size - 1)) + page_size
page_align_next(p, page_size) ==
  (BitAnd(p % Word, BitNot((page_size - 1) % Word)) + page_size) % Word

\* page_align: (((size_t)p - 1) & ~(page_size - 1)) + page_size
page_align(p, page_size) ==
  (BitAnd((p - 1) % Word, BitNot((page_size - 1) % Word)) + page_size) % Word

----------------------------------------------------------------------------
(* container.c init_shared_bufs: where the two regions are mapped *)

IntMax == 2 ^ (IntBits - 1) - 1

\* a value stored in an int: two's complement, as the build (gcc without
\* -ftrapv, run.sh) computes an int sum and converts a pointer difference
ToInt(v) ==
  LET m == v % (2 ^ IntBits)
  IN IF m > IntMax THEN m - 2 ^ IntBits ELSE m

\* a reservation with room for two alignments only
wasm_alloc_size_two_pages(ro_size, rw_size, page_size) ==
  ToInt(ro_size + rw_size + 2 * page_size)

\* int wasm_alloc_size = wc.ro_size + wc.rw_size + 3 * page_size
wasm_alloc_size(ro_size, rw_size, page_size) ==
  ToInt(ro_size + rw_size + 3 * page_size)

\* the process-absolute address passed on as the offset
shift_absolute(buf, wasm_memory_base) == ToInt(buf)

\* int shift_ro = (void *)wc.ro_buf - wasm_memory_base, and shift_rw likewise
shift(buf, wasm_memory_base) == ToInt(buf - wasm_memory_base)

\* init_shared_bufs for a guest malloc that returned val, linear memory at
\* wasm_memory_base, and mmap calls that land on the addresses asked for:
\* the reservation, the aligned addresses, the assertion and the arguments of
\* set_shared. asserted is the value of aligned_size <= wasm_alloc_size.
init_shared_bufs(wasm_memory_base, val, page_size, ro_size, rw_size) ==
  LET alloc_size == wasm_alloc_size(ro_size, rw_size, page_size)
      wasm_alloc_ptr == (wasm_memory_base + val) % Word
      aligned_ro == page_align(wasm_alloc_ptr, page_size)
      aligned_rw == page_align((aligned_ro + ro_size) % Word, page_size)
      end == page_align((aligned_rw + rw_size) % Word, page_size)
      aligned_size == ToInt(end - wasm_alloc_ptr)
  IN [wasm_alloc_size |-> alloc_size,
      wasm_alloc_ptr |-> wasm_alloc_ptr,
      ro_buf |-> aligned_ro,
      rw_buf |-> aligned_rw,
      end |-> end,
      aligned_size |-> aligned_size,
      asserted |-> aligned_size <= alloc_size,
      shift_ro |-> shift(aligned_ro, wasm_memory_base),
      shift_rw |-> shift(aligned_rw, wasm_memory_base)]

----------------------------------------------------------------------------
(* State of the processes *)

\* main returned 0 ("done") or 1 ("failed"), or the process was ended by a signal
HostTerminated == hpc \in {"done", "failed", "aborted", "killed"}
Terminated(c) == cpc[c] \in {"exited", "crashed"}
Running(c) == cpc[c] \in {"start", "loop", "processing", "shutdown"}

\* every read end of pipes[c].p2c is closed: the host closed its copy before it
\* forked the next container, so only container c holds one
ReaderGone(c) == Terminated(c)
\* every write end of pipes[c].c2p is closed: only container c holds one
AckWriterGone(c) == Terminated(c)
\* every write end of pipes[c].p2c is closed: the host holds one, and container 1,
\* forked while the host held pipes[0].p2c[W], inherited a copy of that one
CmdWriterGone(c) ==
  /\ HostTerminated
  /\ c = 0 => cpc[1] \in {"none", "exited", "crashed"}

\* the state when main of the host starts
InitProcesses ==
  /\ hpc = "setup_ro"
  /\ i = 1
  /\ nfork = 0
  /\ hres = TRUE
  /\ reaped = {}
  /\ p2c = [c \in Containers |-> <<>>]
  /\ c2p = [c \in Containers |-> <<>>]
  /\ cpc = [c \in Containers |-> "none"]
  /\ cur = [c \in Containers |-> NoByte]
  /\ funcs = [c \in Containers |-> FALSE]
  /\ opened = [c \in Containers |-> [r \in Regions |-> "none"]]
  /\ prot = [c \in Containers |-> [r \in Regions |-> "none"]]
  /\ shm = [r \in Regions |-> "absent"]
  /\ hostmap = [r \in Regions |-> FALSE]
  /\ mem = [ro |-> ZeroBuf(RoSize), rw |-> ZeroBuf(RwSize)]
  /\ unlinks = [r \in Regions |-> 0]
  /\ written = <<>>
  /\ executed = <<>>
  /\ acks = <<>>
  /\ qdone = {}
  /\ faults = {}
  /\ enable_host_modify = FALSE

Init ==
  /\ cmds \in CmdLists
  /\ InitProcesses
  /\ args = <<>>
  /\ ret = <<>>

----------------------------------------------------------------------------
(* host.c *)

\* main: shared_ro = setup_shared_buf(kReadOnlyBufName, kReadOnlyBufSize, "ro")
host_setup_ro ==
  /\ hpc = "setup_ro"
  /\ shm' = [shm EXCEPT !.ro = "linked"]
  /\ hostmap' = [hostmap EXCEPT !.ro = TRUE]
  /\ mem' = [mem EXCEPT !.ro = setup_shared_buf(RoSize, "ro")]
  /\ hpc' = "setup_rw"
  /\ UNCHANGED <<cmds, i, nfork, hres, reaped, p2c, c2p, cpc, cur, funcs, opened, prot,
                 unlinks, written, executed, acks, qdone, faults, enable_host_modify, pureVars>>

\* main: shared_rw = setup_shared_buf(kReadWriteBufName, kReadWriteBufSize, "rw")
host_setup_rw ==
  /\ hpc = "setup_rw"
  /\ shm' = [shm EXCEPT !.rw = "linked"]
  /\ hostmap' = [hostmap EXCEPT !.rw = TRUE]
  /\ mem' = [mem EXCEPT !.rw = setup_shared_buf(RwSize, "rw")]
  /\ hpc' = "fork"
  /\ UNCHANGED <<cmds, i, nfork, hres, reaped, p2c, c2p, cpc, cur, funcs, opened, prot,
                 unlinks, written, executed, acks, qdone, faults, enable_host_modify, pureVars>>

\* a fork_container called between the two setup_shared_buf calls of main
host_fork_early ==
  /\ hpc \in {"setup_rw", "fork"}
  /\ nfork < 2
  /\ cpc' = [cpc EXCEPT ![nfork] = "start"]
  /\ nfork' = nfork + 1
  /\ hpc' = "ready"
  /\ UNCHANGED <<cmds, i, hres, reaped, p2c, c2p, cur, funcs, opened, prot, shm, hostmap,
                 mem, unlinks, written, executed, acks, qdone, faults, enable_host_modify, pureVars>>

\* fork_container up to the blocking read: the pipes are made and the child runs
host_fork_container ==
  /\ hpc = "fork"
  /\ nfork < 2
  /\ cpc' = [cpc EXCEPT ![nfork] = "start"]
  /\ nfork' = nfork + 1
  /\ hpc' = "ready"
  /\ UNCHANGED <<cmds, i, hres, reaped, p2c, c2p, cur, funcs, opened, prot, shm, hostmap,
                 mem, unlinks, written, executed, acks, qdone, faults, enable_host_modify, pureVars>>

\* fork_container that returns without reading the ready byte
host_fork_noready ==
  /\ hpc = "ready"
  /\ hpc' = IF nfork < 2 THEN "fork" ELSE "loop"
  /\ UNCHANGED <<cmds, i, nfork, hres, reaped, p2c, c2p, cpc, cur, funcs, opened, prot,
                 shm, hostmap, mem, unlinks, written, executed, acks, qdone, faults,
                 enable_host_modify, pureVars>>

\* fork_container: assert(read(c2p[R], &ready, 1) == 1); assert(ready == '@')
host_fork_ready ==
  /\ hpc = "ready"
  /\ LET c == nfork - 1 IN
       IF c2p[c] # <<>>
       THEN /\ c2p' = [c2p EXCEPT ![c] = Tail(c2p[c])]
            /\ hpc' = IF Head(c2p[c]) # ReadyByte THEN "aborted"
                      ELSE IF nfork < 2 THEN "fork" ELSE "loop"
       ELSE /\ AckWriterGone(c)
            /\ hpc' = "aborted"
            /\ UNCHANGED c2p
  /\ UNCHANGED <<cmds, i, nfork, hres, reaped, p2c, cpc, cur, funcs, opened, prot, shm,
                 hostmap, mem, unlinks, written, executed, acks, qdone, faults, enable_host_modify, pureVars>>

\* send without its second test: every byte but the failure byte counts as success
send_result_lax(cmd, ack) == ack # FailureByte

\* send: what the ack read means for the caller
send_result(cmd, ack) ==
  IF ack = FailureByte THEN FALSE
  ELSE IF ack # cmd THEN FALSE
  ELSE TRUE

\* send that returns after its write, without reading the ack
host_send_nowait ==
  /\ hpc = "loop"
  /\ i <= Len(cmds)
  /\ ~ReaderGone(cmds[i][1])
  /\ p2c' = [p2c EXCEPT ![cmds[i][1]] = Append(p2c[cmds[i][1]], cmds[i][2])]
  /\ written' = Append(written, cmds[i])
  /\ i' = i + 1
  /\ UNCHANGED <<cmds, hpc, nfork, hres, reaped, c2p, cpc, cur, funcs, opened, prot,
                 shm, hostmap, mem, unlinks, executed, acks, qdone, faults, enable_host_modify, pureVars>>

\* main loop, send up to its blocking read: assert(write(p2c[W], &cmd, 1) == 1).
\* A write to a pipe without a reader raises SIGPIPE, which kills the host.
host_send_write ==
  /\ hpc = "loop"
  /\ i <= Len(cmds)
  /\ LET c == cmds[i][1]
         cmd == cmds[i][2]
     IN IF ReaderGone(c)
        THEN /\ hpc' = "killed"
             /\ UNCHANGED <<p2c, written>>
        ELSE /\ p2c' = [p2c EXCEPT ![c] = Append(p2c[c], cmd)]
             /\ written' = Append(written, cmds[i])
             /\ hpc' = "ack"
  /\ UNCHANGED <<cmds, i, nfork, hres, reaped, c2p, cpc, cur, funcs, opened, prot, shm,
                 hostmap, mem, unlinks, executed, acks, qdone, faults, enable_host_modify, pureVars>>

\* a loop that goes on to the next pair after a failed send
main_loop_continue(ok) == [pc |-> "loop", i |-> i + 1]

\* the loop step of main after send returned: break on failure, else i++
main_loop_step(ok) == IF ok THEN [pc |-> "loop", i |-> i + 1] ELSE [pc |-> "wait", i |-> i]

\* send from its blocking read on: assert(read(c2p[R], &ack, 1) == 1), the result,
\* and the loop step of main. At end of file read returns 0 and the assert aborts.
host_send_read ==
  /\ hpc = "ack"
  /\ LET c == cmds[i][1]
         cmd == cmds[i][2]
     IN IF c2p[c] # <<>>
        THEN LET ok == send_result(cmd, Head(c2p[c]))
                 step == main_loop_step(ok)
             IN /\ c2p' = [c2p EXCEPT ![c] = Tail(c2p[c])]
                /\ hres' = ok
                /\ hpc' = step.pc
                /\ i' = step.i
        ELSE /\ AckWriterGone(c)
             /\ hpc' = "aborted"
             /\ UNCHANGED <<c2p, hres, i>>
  /\ UNCHANGED <<cmds, nfork, reaped, p2c, cpc, cur, funcs, opened, prot, shm, hostmap,
                 mem, unlinks, written, executed, acks, qdone, faults, enable_host_modify, pureVars>>

\* main: the for loop ends when i reaches the length of cmds
host_loop_end ==
  /\ hpc = "loop"
  /\ i > Len(cmds)
  /\ hpc' = "wait"
  /\ UNCHANGED <<cmds, i, nfork, hres, reaped, p2c, c2p, cpc, cur, funcs, opened, prot,
                 shm, hostmap, mem, unlinks, written, executed, acks, qdone, faults,
                 enable_host_modify, pureVars>>

\* main: wait(NULL) returns as soon as one child has terminated
host_wait ==
  /\ hpc = "wait"
  /\ \E c \in Containers :
       /\ Terminated(c)
       /\ c \notin reaped
       /\ reaped' = reaped \cup {c}
  /\ hpc' = "munmap"
  /\ UNCHANGED <<cmds, i, nfork, hres, p2c, c2p, cpc, cur, funcs, opened, prot, shm,
                 hostmap, mem, unlinks, written, executed, acks, qdone, faults, enable_host_modify, pureVars>>

\* How the teardown calls of main can end, as far as the system decides it: each
\* call either succeeds or returns -1
TeardownEnds == {"ok", "ro", "rw"}

\* a main that returns 1 when the command sequence stopped at a failure
main_return_by_send(torn_down) == IF torn_down /\ hres THEN "done" ELSE "failed"

\* main: return 1 after a failed munmap or shm_unlink, return 0 at the end
main_return(torn_down) == IF torn_down THEN "done" ELSE "failed"

\* the value main returned, once it has returned
exit_code == IF hpc = "done" THEN 0 ELSE 1

\* main: if (munmap(shared_ro, ...) == -1 || munmap(shared_rw, ...) == -1)
\* { perror("munmap"); return 1; }. The second call is made only when the first
\* succeeded.
host_munmap ==
  /\ hpc = "munmap"
  /\ \E e \in TeardownEnds :
       /\ hostmap' = [ro |-> IF e = "ro" THEN hostmap.ro ELSE FALSE,
                      rw |-> IF e = "ok" THEN FALSE ELSE hostmap.rw]
       /\ hpc' = IF e = "ok" THEN "unlink" ELSE main_return(FALSE)
       /\ faults' = IF e = "ok" THEN faults ELSE faults \cup {"munmap"}
  /\ UNCHANGED <<cmds, i, nfork, hres, reaped, p2c, c2p, cpc, cur, funcs, opened, prot,
                 shm, mem, unlinks, written, executed, acks, qdone, enable_host_modify, pureVars>>

\* main: if (shm_unlink(kReadOnlyBufName) == -1 || shm_unlink(kReadWriteBufName) == -1)
\* { perror("shm_unlink"); return 1; } return 0. The second call is made only
\* when the first succeeded.
host_shm_unlink ==
  /\ hpc = "unlink"
  /\ \E e \in TeardownEnds :
       /\ shm' = [ro |-> IF e = "ro" THEN shm.ro ELSE "unlinked",
                  rw |-> IF e = "ok" THEN "unlinked" ELSE shm.rw]
       /\ unlinks' = [ro |-> IF e = "ro" THEN unlinks.ro ELSE unlinks.ro + 1,
                      rw |-> IF e = "ok" THEN unlinks.rw + 1 ELSE unlinks.rw]
       /\ hpc' = main_return(e = "ok")
       /\ faults' = IF e = "ok" THEN faults ELSE faults \cup {"shm_unlink"}
  /\ UNCHANGED <<cmds, i, nfork, hres, reaped, p2c, c2p, cpc, cur, funcs, opened, prot,
                 hostmap, mem, written, executed, acks, qdone, enable_host_modify, pureVars>>

----------------------------------------------------------------------------
(* container.c *)

\* the read-only object opened like the read-write one
ro_open_rdwr == "O_RDWR"

\* init_shared_bufs: shm_open(wc.ro_name, O_RDONLY, ...)
ro_open_flags == "O_RDONLY"
\* init_shared_bufs: mmap(aligned_ro, wc.ro_size, PROT_READ, ...)
ro_mmap_prot == "r"
\* init_shared_bufs: shm_open(wc.rw_name, O_RDWR, ...)
rw_open_flags == "O_RDWR"
\* init_shared_bufs: mmap(aligned_rw, wc.rw_size, PROT_READ | PROT_WRITE, ...)
rw_mmap_prot == "rw"

\* mmap(addr, size, p, MAP_SHARED | MAP_FIXED, fd, 0) on a descriptor opened with
\* flags: a shared writable mapping of a read-only descriptor is refused (EACCES)
mmap(flags, p) == IF p = "rw" /\ flags = "O_RDONLY" THEN "failed" ELSE p

\* What one command handler did: res is "ok" (handler returned true), "fail"
\* (returned false), "crash" (a failed assert or a null function reference) or
\* "segv" (a store through a mapping without write permission).
Outcome(c, res) ==
  [res |-> res, funcs |-> funcs[c], opened |-> opened[c], prot |-> prot[c], mem |-> mem,
   fault |-> {}]

\* fn_call on wc.funcs[index] == NULL, before init_module has set it: undefined
\* behaviour; the process dies, or the call comes back with either result
null_call(c, results) == {Outcome(c, r) : r \in results \cup {"crash"}}

\* How init_module() && init_shared_bufs() can end, as far as the program's
\* surroundings decide it:
\*   "module"  init_module returns false before it looks for the exports (the
\*             file, the compilation, the imports or the instantiation fails)
\*   "exports" init_module returns false because the instance lacks the export
\*             "memory" or one of the functions of kWasmFuncNames
\*   "malloc"  the guest malloc traps
\*   "shm_ro"  shm_open of the read-only object fails
\*   "shm_rw"  shm_open of the read-write object fails, the read-only one is mapped
\*   "mmap"    mmap does not land on the aligned address: assert fails
\*   "ok"      nothing fails
InitEnds == {"module", "exports", "malloc", "shm_ro", "shm_rw", "mmap", "ok"}

\* shm_open of an object finds it only while its name is linked
InitEndPossible(e) ==
  /\ e \in {"shm_rw", "mmap", "ok"} => shm.ro = "linked"
  /\ e \in {"mmap", "ok"} => shm.rw = "linked"

\* init_shared_bufs that asserts on the descriptors: assert(ro_fd != -1),
\* assert(rw_fd != -1)
init_assert_open(c) ==
  LET ro == mmap(ro_open_flags, ro_mmap_prot)
      rw == mmap(rw_open_flags, rw_mmap_prot)
      reached_ro(e) == e \in {"shm_rw", "mmap", "ok"}
      reached_rw(e) == e \in {"mmap", "ok"}
  IN {[res |-> IF e \in {"mmap", "shm_ro", "shm_rw"} \/ (reached_ro(e) /\ ro = "failed")
                    \/ (reached_rw(e) /\ rw = "failed") THEN "crash"
               ELSE IF e = "ok" THEN "ok" ELSE "fail",
       funcs |-> IF e \in {"module", "exports"} THEN funcs[c] ELSE TRUE,
       opened |-> [ro |-> IF reached_ro(e) THEN ro_open_flags ELSE opened[c].ro,
                   rw |-> IF reached_rw(e) /\ ro # "failed" THEN rw_open_flags
                          ELSE opened[c].rw],
       prot |-> [ro |-> IF reached_ro(e) /\ e # "mmap" /\ ro # "failed" THEN ro
                        ELSE prot[c].ro,
                 rw |-> IF e = "ok" /\ ro # "failed" /\ rw # "failed" THEN rw
                        ELSE prot[c].rw],
       mem |-> mem,
       fault |-> {e} \ {"ok"}] :
      e \in {x \in InitEnds : InitEndPossible(x)}}

\* init_module() && init_shared_bufs(); assert(wc.ro_buf == aligned_ro) and
\* assert(wc.rw_buf == aligned_rw) abort the process when mmap failed
init(c) ==
  LET ro == mmap(ro_open_flags, ro_mmap_prot)
      rw == mmap(rw_open_flags, rw_mmap_prot)
      reached_ro(e) == e \in {"shm_rw", "mmap", "ok"}
      reached_rw(e) == e \in {"mmap", "ok"}
  IN {[res |-> IF e = "mmap" \/ (reached_ro(e) /\ ro = "failed")
                    \/ (reached_rw(e) /\ rw = "failed") THEN "crash"
               ELSE IF e = "ok" THEN "ok" ELSE "fail",
       funcs |-> IF e \in {"module", "exports"} THEN funcs[c] ELSE TRUE,
       opened |-> [ro |-> IF reached_ro(e) THEN ro_open_flags ELSE opened[c].ro,
                   rw |-> IF reached_rw(e) /\ ro # "failed" THEN rw_open_flags
                          ELSE opened[c].rw],
       prot |-> [ro |-> IF reached_ro(e) /\ e # "mmap" /\ ro # "failed" THEN ro
                        ELSE prot[c].ro,
                 rw |-> IF e = "ok" /\ ro # "failed" /\ rw # "failed" THEN rw
                        ELSE prot[c].rw],
       mem |-> mem,
       fault |-> {e} \ {"ok"}] :
      e \in {x \in InitEnds : InitEndPossible(x)}}

\* verify_shared_bufs whose default case returns true: only 1 and 2 are failures
verify_shared_bufs_lax(c) ==
  IF ~funcs[c] THEN null_call(c, {"ok", "fail"})
  ELSE {Outcome(c, IF verify_shared(mem) \in {1, 2} THEN "fail" ELSE "ok")}

\* verify_shared_bufs: assert(res.ok); true iff the guest's verify_shared is 0
verify_shared_bufs(c) ==
  IF ~funcs[c] THEN null_call(c, {"ok", "fail"})
  ELSE {Outcome(c, IF verify_shared(mem) = 0 THEN "ok" ELSE "fail")}

\* module.c, fill_memory: 0 when all 99 blocks were allocated, else the iteration
\* at which malloc returned NULL
FillResults == 0 .. 99

\* test_memory_alloc that reports a failed allocation: return res.val == 0
test_memory_alloc_checked(c) ==
  IF ~funcs[c] THEN null_call(c, {"ok"})
  ELSE {Outcome(c, IF val = 0 THEN "ok" ELSE "fail") : val \in FillResults}

\* test_memory_alloc: res = fn_call(FN_FILL_MEMORY); assert(res.ok); the value is
\* only printed; assert(fn_call(FN_CLEAR_MEMORY).ok); return true
test_memory_alloc(c) ==
  IF ~funcs[c] THEN null_call(c, {"ok"})
  ELSE {Outcome(c, "ok") : val \in FillResults}

\* write_to_rw that starts one byte further: fn_call(FN_WRITE_RW, 4, 20, 10)
write_to_rw_off_by_one(c) ==
  IF ~funcs[c] THEN null_call(c, {"ok"})
  ELSE IF prot[c].rw # "rw" THEN {Outcome(c, "segv")}
  ELSE {[Outcome(c, "ok") EXCEPT !.mem.rw = write_rw(mem.rw, RwPos + 1, RwVal, RwLen)]}

\* write_to_rw: assert(fn_call(FN_WRITE_RW, 3, 20, 10).ok); the guest stores
\* through the container's mapping of the read-write region
write_to_rw(c) ==
  IF ~funcs[c] THEN null_call(c, {"ok"})
  ELSE IF prot[c].rw # "rw" THEN {Outcome(c, "segv")}
  ELSE {[Outcome(c, "ok") EXCEPT !.mem.rw = write_rw(mem.rw, RwPos, RwVal, RwLen)]}

\* read_from_rw: assert(res.ok); false when read_rw reports a mismatch
read_from_rw(c) ==
  IF ~funcs[c] THEN null_call(c, {"ok", "fail"})
  ELSE {Outcome(c, IF read_rw(mem.rw, RwPos, RwVal, RwLen) = 0 THEN "ok" ELSE "fail")}

\* a store through the read-only mapping that is dropped instead of faulting
write_to_ro_dropped(c) == {Outcome(c, "ok")}

\* write_to_ro: the guest's write_ro stores 'X' at ro_buf[0]; through a mapping
\* without write permission the store raises SIGSEGV in the container process.
\* write_to_ro returns nothing, so ok keeps its value true when the call returns.
write_to_ro(c) ==
  IF ~funcs[c] THEN null_call(c, {"ok"})
  ELSE IF prot[c].ro # "rw" THEN {Outcome(c, "segv")}
  ELSE {[Outcome(c, "ok") EXCEPT !.mem.ro = [mem.ro EXCEPT ![0] = 88]]}

\* test_error_handling without the negation: return fn_call(FN_FORCE_ERROR).ok
test_error_handling_unnegated(c) ==
  IF ~funcs[c] THEN null_call(c, {"ok", "fail"})
  ELSE {[Outcome(c, IF trapped THEN "fail" ELSE "ok")
           EXCEPT !.fault = IF trapped THEN {} ELSE {"notrap"}] : trapped \in BOOLEAN}

\* test_error_handling: return !fn_call(FN_FORCE_ERROR).ok; the engine decides
\* whether the guest's load from 0xffffffffff traps
test_error_handling(c) ==
  IF ~funcs[c] THEN null_call(c, {"ok", "fail"})
  ELSE {[Outcome(c, IF trapped THEN "ok" ELSE "fail")
           EXCEPT !.fault = IF trapped THEN {} ELSE {"notrap"}] : trapped \in BOOLEAN}

\* command_loop: the switch on cmd. The default case only prints, ok stays true.
command_switch(c, cmd) ==
  CASE cmd = "i" -> init(c)
    [] cmd = "v" -> verify_shared_bufs(c)
    [] cmd = "m" -> test_memory_alloc(c)
    [] cmd = "w" -> write_to_rw(c)
    [] cmd = "r" -> read_from_rw(c)
    [] cmd = "q" -> write_to_ro(c)
    [] cmd = "e" -> test_error_handling(c)
    [] OTHER -> {Outcome(c, "ok")}

\* a failure answered with the initial value of cmd instead of the failure byte
ack_byte_unset(cmd, ok) == IF ok THEN cmd ELSE NoByte

\* command_loop: what follows the switch: send(cmd) when ok, else send('*')
ack_byte(cmd, ok) == IF ok THEN cmd ELSE FailureByte

\* a loop that goes on after a failure: while (true) in place of while (ok)
after_ack_retry(cmd, ok) == IF cmd = "x" THEN "shutdown" ELSE "loop"

\* a loop that goes on after the ack of 'x'
after_ack_stay(cmd, ok) == IF ~ok THEN "shutdown" ELSE "loop"

\* command_loop: while (ok) goes on after an ack of success, except after 'x',
\* which returns; main then runs destroy() and the process ends
after_ack(cmd, ok) == IF cmd = "x" \/ ~ok THEN "shutdown" ELSE "loop"

\* main: send('@'), then command_loop()
container_main(c) ==
  /\ cpc[c] = "start"
  /\ c2p' = [c2p EXCEPT ![c] = Append(c2p[c], ReadyByte)]
  /\ cpc' = [cpc EXCEPT ![c] = "loop"]
  /\ UNCHANGED <<cmds, hpc, i, nfork, hres, reaped, p2c, cur, funcs, opened, prot, shm,
                 hostmap, mem, unlinks, written, executed, acks, qdone, faults, enable_host_modify, pureVars>>

\* command_loop: assert(read(wc.read_fd, &cmd, 1) == 1), a byte is there
command_loop_read(c) ==
  /\ cpc[c] = "loop"
  /\ p2c[c] # <<>>
  /\ cur' = [cur EXCEPT ![c] = Head(p2c[c])]
  /\ p2c' = [p2c EXCEPT ![c] = Tail(p2c[c])]
  /\ cpc' = [cpc EXCEPT ![c] = "processing"]
  /\ UNCHANGED <<cmds, hpc, i, nfork, hres, reaped, c2p, funcs, opened, prot, shm, hostmap,
                 mem, unlinks, written, executed, acks, qdone, faults, enable_host_modify, pureVars>>

\* command_loop: read returns 0 at end of file and the assert aborts the process
command_loop_eof(c) ==
  /\ cpc[c] = "loop"
  /\ p2c[c] = <<>>
  /\ CmdWriterGone(c)
  /\ cpc' = [cpc EXCEPT ![c] = "crashed"]
  /\ prot' = [prot EXCEPT ![c] = [r \in Regions |-> "none"]]
  /\ UNCHANGED <<cmds, hpc, i, nfork, hres, reaped, p2c, c2p, cur, funcs, opened,
                 shm, hostmap, mem, unlinks, written, executed, acks, qdone, faults,
                 enable_host_modify, pureVars>>

\* command_loop: one command handled, from the switch to the ack
command_loop_exec(c) ==
  /\ cpc[c] = "processing"
  /\ \E out \in command_switch(c, cur[c]) :
       LET cmd == cur[c]
           died == out.res \in {"crash", "segv"}
           ok == out.res = "ok"
       IN /\ executed' = Append(executed, <<c, cmd>>)
          /\ funcs' = [funcs EXCEPT ![c] = out.funcs]
          /\ opened' = [opened EXCEPT ![c] = out.opened]
          /\ mem' = out.mem
          /\ qdone' = IF cmd = "q" /\ funcs[c] THEN qdone \cup {c} ELSE qdone
          /\ faults' = faults \cup out.fault
          /\ IF died
             THEN /\ cpc' = [cpc EXCEPT ![c] = "crashed"]
                  /\ prot' = [prot EXCEPT ![c] = [r \in Regions |-> "none"]]
                  /\ UNCHANGED <<c2p, acks>>
             ELSE /\ c2p' = [c2p EXCEPT ![c] = Append(c2p[c], ack_byte(cmd, ok))]
                  /\ acks' = Append(acks, <<c, cmd, ack_byte(cmd, ok)>>)
                  /\ cpc' = [cpc EXCEPT ![c] = after_ack(cmd, ok)]
                  /\ prot' = [prot EXCEPT ![c] = out.prot]
  /\ UNCHANGED <<cmds, hpc, i, nfork, hres, reaped, p2c, cur, shm, hostmap,
                 unlinks, written, enable_host_modify, pureVars>>

\* main: destroy() unmaps the regions, then the process ends
container_destroy(c) ==
  /\ cpc[c] = "shutdown"
  /\ cpc' = [cpc EXCEPT ![c] = "exited"]
  /\ prot' = [prot EXCEPT ![c] = [r \in Regions |-> "none"]]
  /\ UNCHANGED <<cmds, hpc, i, nfork, hres, reaped, p2c, c2p, cur, funcs, opened,
                 shm, hostmap, mem, unlinks, written, executed, acks, qdone, faults,
                 enable_host_modify, pureVars>>

----------------------------------------------------------------------------
(* The system: the host and the two containers, interleaved *)

Next ==
  \/ host_setup_ro
  \/ host_setup_rw
  \/ host_fork_container
  \/ host_fork_ready
  \/ host_send_write
  \/ host_send_read
  \/ host_loop_end
  \/ host_wait
  \/ host_munmap
  \/ host_shm_unlink
  \/ \E c \in Containers : container_main(c)
  \/ \E c \in Containers : command_loop_read(c)
  \/ \E c \in Containers : command_loop_eof(c)
  \/ \E c \in Containers : command_loop_exec(c)
  \/ \E c \in Containers : container_destroy(c)

Spec == Init /\ [][Next]_vars

----------------------------------------------------------------------------
(* The host as it is shipped: main with the uncommented command list. Every
   process that can take a step is scheduled in the end. *)

InitShipped ==
  /\ cmds = ShippedCmds
  /\ InitProcesses
  /\ args = <<>>
  /\ ret = <<>>

SpecShipped == InitShipped /\ [][Next]_vars /\ WF_vars(Next)

----------------------------------------------------------------------------
(* send as a function of the command byte and the byte read *)

InitSend ==
  /\ cmds = <<>>
  /\ InitProcesses
  /\ args \in [cmd : CmdBytes, ack : Bytes]
  /\ ret = <<>>

apply_send ==
  /\ ret = <<>>
  /\ ret' = <<send_result(args.cmd, args.ack)>>
  /\ UNCHANGED <<protoVars, args>>

NextSend == apply_send

SpecSend == InitSend /\ [][NextSend]_vars

----------------------------------------------------------------------------
(* write_rw and read_rw as functions of the offset, the start values and the length *)

\* start values a caller can pass in a 32-bit integer
StartVals == {-2147483647 - 1, -236, -1, 0, 20, 21, 255, 256, 276, 2147483647}

InitRw ==
  /\ cmds = <<>>
  /\ InitProcesses
  /\ args \in [pos : 0..(RwSize - MaxRwLen), start : StartVals, other : StartVals,
               len : 1..MaxRwLen]
  /\ ret = <<>>

\* write_rw(pos, start, len) on the region as the host set it up, then
\* read_rw(pos, start, len) and read_rw(pos, other, len)
apply_rw ==
  /\ ret = <<>>
  /\ LET buf == write_rw(setup_shared_buf(RwSize, "rw"), args.pos, args.start, args.len)
     IN ret' = <<read_rw(buf, args.pos, args.start, args.len),
                 read_rw(buf, args.pos, args.other, args.len)>>
  /\ UNCHANGED <<protoVars, args>>

NextRw == apply_rw

SpecRw == InitRw /\ [][NextRw]_vars

----------------------------------------------------------------------------
(* page_align as a function of the address and the page size *)

InitAlign ==
  /\ cmds = <<>>
  /\ InitProcesses
  /\ args \in [p : 0..(Word - 1), page_size : PageSizes]
  /\ ret = <<>>

apply_page_align ==
  /\ ret = <<>>
  /\ ret' = <<page_align(args.p, args.page_size)>>
  /\ UNCHANGED <<protoVars, args>>

NextAlign == apply_page_align

SpecAlign == InitAlign /\ [][NextAlign]_vars

----------------------------------------------------------------------------
(* init_shared_bufs as a function of the addresses and the sizes *)

\* where the engine put the linear memory: on a page boundary, or not
MemoryBases == {2 * 2 ^ PageBits, 2 * 2 ^ PageBits + 3}
\* what the guest malloc returned: every position within a page; 0 is its
\* null pointer, which init_shared_bufs does not test for
MallocVals == 0..(2 ^ PageBits)
\* wc.ro_size, wc.rw_size: atoi of an argument, here the non-negative ones
SizeVals == (0..SmallSizes) \cup ((IntMax - SmallSizes)..IntMax)

InitMap ==
  /\ cmds = <<>>
  /\ InitProcesses
  /\ args \in [wasm_memory_base : MemoryBases, val : MallocVals, page_size : PageSizes,
               ro_size : SizeVals, rw_size : SizeVals]
  /\ ret = <<>>

apply_init_shared_bufs ==
  /\ ret = <<>>
  /\ ret' = <<init_shared_bufs(args.wasm_memory_base, args.val, args.page_size,
                               args.ro_size, args.rw_size)>>
  /\ UNCHANGED <<protoVars, args>>

NextMap == apply_init_shared_bufs

SpecMap == InitMap /\ [][NextMap]_vars

----------------------------------------------------------------------------
(* setup_shared_buf, then scan_shared, as functions of the size and the tags *)

\* sizes from 3 on: below, shared + size - 3 lies before the mapping
PatternSizes == 3..MaxPatternSize

InitPattern ==
  /\ cmds = <<>>
  /\ InitProcesses
  /\ args \in [size : PatternSizes, mode : Regions, prefix : Regions]
  /\ ret = <<>>

\* scan_shared(buf, size, prefix) on the bytes setup_shared_buf(size, mode) stored
apply_scan ==
  /\ ret = <<>>
  /\ ret' = <<scan_shared(setup_shared_buf(args.size, args.mode), args.size,
                          ModePrefix(args.prefix))>>
  /\ UNCHANGED <<protoVars, args>>

NextPattern == apply_scan

SpecPattern == InitPattern /\ [][NextPattern]_vars

----------------------------------------------------------------------------
(* The verify command on regions whose content differs from the pattern *)

\* buf with the bytes at the offsets ks changed
Corrupt(buf, ks) == [k \in DOMAIN buf |-> IF k \in ks THEN (buf[k] + 1) % 256 ELSE buf[k]]

\* buf as it was set up, or with one or two of its bytes changed
Corruptions(buf) ==
  {Corrupt(buf, ks) : ks \in {x \in SUBSET DOMAIN buf : Cardinality(x) <= 2}}

\* container 0 after a successful init, the regions holding what verify finds
InitVerify ==
  /\ cmds = <<>>
  /\ hpc = "loop"
  /\ i = 1
  /\ nfork = 2
  /\ hres = TRUE
  /\ reaped = {}
  /\ p2c = [c \in Containers |-> <<>>]
  /\ c2p = [c \in Containers |-> <<>>]
  /\ cpc = [c \in Containers |-> "loop"]
  /\ cur = [c \in Containers |-> NoByte]
  /\ funcs = [c \in Containers |-> c = 0]
  /\ opened = [c \in Containers |-> [r \in Regions |-> "none"]]
  /\ prot = [c \in Containers |->
               IF c = 0 THEN [ro |-> ro_mmap_prot, rw |-> rw_mmap_prot]
               ELSE [r \in Regions |-> "none"]]
  /\ shm = [r \in Regions |-> "linked"]
  /\ hostmap = [r \in Regions |-> TRUE]
  /\ mem \in [ro : Corruptions(setup_shared_buf(RoSize, "ro")),
               rw : Corruptions(setup_shared_buf(RwSize, "rw"))]
  /\ unlinks = [r \in Regions |-> 0]
  /\ written = <<>>
  /\ executed = <<>>
  /\ acks = <<>>
  /\ qdone = {}
  /\ faults = {}
  /\ enable_host_modify = FALSE
  /\ args = <<>>
  /\ ret = <<>>

\* the guest's verify_shared on the regions, and the byte the command loop sends
\* after verify_shared_bufs
apply_verify ==
  /\ ret = <<>>
  /\ \E out \in verify_shared_bufs(0) :
       ret' = <<verify_shared(mem), ack_byte("v", out.res = "ok")>>
  /\ UNCHANGED <<protoVars, args>>

NextVerify == apply_verify

SpecVerify == InitVerify /\ [][NextVerify]_vars

----------------------------------------------------------------------------
(* The GTK demo: host.c of gtk, container.c of gtk, hunter.c and runner.c.  *)
(* The read-only region holds the grid, the read-write region the hunter    *)
(* and the runners. Container 0 runs hunter.wasm, container 1 runner.wasm.  *)

Cells == (0..(GridH - 1)) \X (0..(GridW - 1))
\* the cells 1 + rand() % (GRID_W - 2), 1 + rand() % (GRID_H - 2) can name
Interior == (1..(GridH - 2)) \X (1..(GridW - 2))
Runners == 1..NRunners
\* common.h: typedef enum { WALKING, RUNNING, DEAD } State
ActorStates == {"WALKING", "RUNNING", "DEAD"}

\* the read-write region right after ftruncate: zero filled
ZeroActors ==
  [hunter |-> [x |-> 0, y |-> 0],
   runners |-> [k \in Runners |-> [x |-> 0, y |-> 0, state |-> "WALKING"]]]

\* host.c init_grid: memset 0, the border cells set to 1, and N_BLOCKS times a
\* random interior cell set to 1. A cell <<y, x>> is grid[y][x].
init_grid ==
  {[c \in Cells |-> IF c \notin Interior \/ c \in blocks THEN 1 ELSE 0] :
     blocks \in {b \in SUBSET Interior : Cardinality(b) \in 1..NBlocks}}

RECURSIVE toggle_n(_, _)
\* host.c tick: n times grid[y][x] = 1 - grid[y][x] at a random interior cell,
\* from one of the grids given
toggle_n(grids, n) ==
  IF n = 0 THEN grids
  ELSE toggle_n({[g EXCEPT ![c] = 1 - g[c]] : g \in grids, c \in Interior}, n - 1)

\* module-common.c rand_step: (rand() % 3) - 1
RandSteps == {-1, 0, 1}

\* module-common.c step: an arbitrary delta as a unit step
step(delta) == IF delta = 0 THEN 0 ELSE IF delta > 0 THEN 1 ELSE -1

\* a move that takes the random second try without looking at its cell
move_unchecked(grid, x, y, mx, my) ==
  IF grid[<<y + my, x + mx>>] = 1
  THEN {<<x + rx, y + ry>> : rx \in RandSteps, ry \in RandSteps}
  ELSE {<<x + mx, y + my>>}

\* module-common.c move: the positions <<x, y>> an actor at x, y can get. When the
\* destination is blocked one random move is tried; when that is blocked too
\* the actor stays.
move(grid, x, y, mx, my) ==
  IF grid[<<y + my, x + mx>>] = 1
  THEN {IF grid[<<y + ry, x + rx>>] = 1 THEN <<x, y>> ELSE <<x + rx, y + ry>> :
          rx \in RandSteps, ry \in RandSteps}
  ELSE {<<x + mx, y + my>>}

\* hunter.c init: the hunter starts in the middle of the grid
hunter_init(m) ==
  {[m EXCEPT !.rw.hunter = [x |-> GridW \div 2, y |-> GridH \div 2]]}

\* hunter.c tick: a step towards the closest runner that is not dead, the first
\* of them in the array when several are as close
hunter_tick(m) ==
  LET h == m.rw.hunter
      alive == {k \in Runners : m.rw.runners[k].state # "DEAD"}
      dx(k) == m.rw.runners[k].x - h.x
      dy(k) == m.rw.runners[k].y - h.y
      dist(k) == dx(k) * dx(k) + dy(k) * dy(k)
      closest == {k \in alive : \A j \in alive : dist(k) < dist(j) \/ (dist(k) = dist(j) /\ k <= j)}
      min_dx == IF closest = {} THEN 0 ELSE dx(CHOOSE k \in closest : TRUE)
      min_dy == IF closest = {} THEN 0 ELSE dy(CHOOSE k \in closest : TRUE)
  IN {[m EXCEPT !.rw.hunter = [x |-> p[1], y |-> p[2]]] :
        p \in move(m.ro, h.x, h.y, step(min_dx), step(min_dy))}

\* hunter.c modify_grid: ctx->grid[0][0] = 2, a store through the mapping of the
\* read-only region
hunter_modify_grid(m) == [m EXCEPT !.ro[<<0, 0>>] = 2]

\* runner.c init: every runner at a random interior cell, walking
runner_init(m) ==
  {[m EXCEPT !.rw.runners = rs] :
     rs \in [Runners -> [x : 1..(GridW - 2), y : 1..(GridH - 2), state : {"WALKING"}]]}

\* runner.c tick, one runner: dead once the hunter is on its cell; else a random
\* walk when the hunter is further than SCARE_DIST, else a run away from it
runner_tick_one(grid, h, r) ==
  LET dx == r.x - h.x
      dy == r.y - h.y
      dist == dx * dx + dy * dy
      far == dist > SCARE_DIST * SCARE_DIST
      moves == IF far THEN RandSteps \X RandSteps
               ELSE ({step(dx)} \X RandSteps) \cup (RandSteps \X {step(dy)})
                      \cup {<<step(dx), step(dy)>>}
  IN IF r.state = "DEAD" \/ (dx = 0 /\ dy = 0) THEN {[r EXCEPT !.state = "DEAD"]}
     ELSE {[x |-> p[1], y |-> p[2], state |-> IF far THEN "WALKING" ELSE "RUNNING"] :
             p \in UNION {move(grid, r.x, r.y, mv[1], mv[2]) : mv \in moves}}

\* runner.c tick: every runner in turn
runner_tick(m) ==
  LET next(k) == runner_tick_one(m.ro, m.rw.hunter, m.rw.runners[k])
  IN {[m EXCEPT !.rw.runners = rs] :
        rs \in {f \in [Runners -> UNION {next(k) : k \in Runners}] :
                  \A k \in Runners : f[k] \in next(k)}}

\* host.c send: for (int i = 0; i < 2; i++), the pairs the loop goes through
Broadcast(code) == << <<0, code>>, <<1, code>> >>

\* number of tick commands the host has sent to container 0
TickCount == Cardinality({k \in 1..Len(written) : written[k] = <<0, "t">>})

\* the state when main of the GTK host starts
InitGtk ==
  /\ cmds = <<>>
  /\ hpc = "g_create"
  /\ i = 1
  /\ nfork = 0
  /\ hres = TRUE
  /\ reaped = {}
  /\ p2c = [c \in Containers |-> <<>>]
  /\ c2p = [c \in Containers |-> <<>>]
  /\ cpc = [c \in Containers |-> "none"]
  /\ cur = [c \in Containers |-> NoByte]
  /\ funcs = [c \in Containers |-> FALSE]
  /\ opened = [c \in Containers |-> [r \in Regions |-> "none"]]
  /\ prot = [c \in Containers |-> [r \in Regions |-> "none"]]
  /\ shm = [r \in Regions |-> "absent"]
  /\ hostmap = [r \in Regions |-> FALSE]
  /\ mem = [ro |-> [c \in Cells |-> 0], rw |-> ZeroActors]
  /\ unlinks = [r \in Regions |-> 0]
  /\ written = <<>>
  /\ executed = <<>>
  /\ acks = <<>>
  /\ qdone = {}
  /\ faults = {}
  /\ enable_host_modify = FALSE
  /\ args = <<>>
  /\ ret = <<>>

\* main: create_shared_buffer for both regions, init_grid()
gtk_main_create ==
  /\ hpc = "g_create"
  /\ shm' = [r \in Regions |-> "linked"]
  /\ hostmap' = [r \in Regions |-> TRUE]
  /\ \E g \in init_grid : mem' = [ro |-> g, rw |-> ZeroActors]
  /\ hpc' = "g_fork"
  /\ UNCHANGED <<cmds, i, nfork, hres, reaped, p2c, c2p, cpc, cur, funcs, opened, prot,
                 unlinks, written, executed, acks, qdone, faults, enable_host_modify,
                 pureVars>>

\* fork_container up to the blocking read: the pipes are made and the child runs
gtk_fork_container ==
  /\ hpc = "g_fork"
  /\ nfork < 2
  /\ cpc' = [cpc EXCEPT ![nfork] = "g_start"]
  /\ nfork' = nfork + 1
  /\ hpc' = "g_ready"
  /\ UNCHANGED <<cmds, i, hres, reaped, p2c, c2p, cur, funcs, opened, prot, shm, hostmap,
                 mem, unlinks, written, executed, acks, qdone, faults, enable_host_modify,
                 pureVars>>

\* fork_container: assert(read(c2p[R], &ready, 1) == 1); assert(ready == CMD_READY);
\* after the second one main goes on to assert(send(CMD_INIT))
gtk_fork_ready ==
  /\ hpc = "g_ready"
  /\ LET c == nfork - 1 IN
       IF c2p[c] # <<>>
       THEN /\ c2p' = [c2p EXCEPT ![c] = Tail(c2p[c])]
            /\ hpc' = IF Head(c2p[c]) # ReadyByte THEN "aborted"
                      ELSE IF nfork < 2 THEN "g_fork" ELSE "g_send"
            /\ cmds' = IF Head(c2p[c]) = ReadyByte /\ nfork = 2 THEN Broadcast("i") ELSE cmds
       ELSE /\ AckWriterGone(c)
            /\ hpc' = "aborted"
            /\ UNCHANGED <<c2p, cmds>>
  /\ UNCHANGED <<i, nfork, hres, reaped, p2c, cpc, cur, funcs, opened, prot, shm,
                 hostmap, mem, unlinks, written, executed, acks, qdone, faults,
                 enable_host_modify, pureVars>>

\* a send that writes the command to both containers before it reads an ack
gtk_send_write_all ==
  /\ hpc = "g_send"
  /\ IF \E c \in Containers : ReaderGone(c)
     THEN /\ hpc' = "killed"
          /\ UNCHANGED <<p2c, written>>
     ELSE /\ p2c' = [c \in Containers |-> Append(p2c[c], cmds[i][2])]
          /\ written' = written \o cmds
          /\ hpc' = "g_ack"
  /\ UNCHANGED <<cmds, i, nfork, hres, reaped, c2p, cpc, cur, funcs, opened, prot, shm,
                 hostmap, mem, unlinks, executed, acks, qdone, faults,
                 enable_host_modify, pureVars>>

\* send, one round up to its blocking read: assert(write(p2c[W], &code, 1) == 1).
\* A write to a pipe without a reader raises SIGPIPE, which kills the host.
gtk_send_write ==
  /\ hpc = "g_send"
  /\ LET c == cmds[i][1]
     IN IF ReaderGone(c)
        THEN /\ hpc' = "killed"
             /\ UNCHANGED <<p2c, written>>
        ELSE /\ p2c' = [p2c EXCEPT ![c] = Append(p2c[c], cmds[i][2])]
             /\ written' = Append(written, cmds[i])
             /\ hpc' = "g_ack"
  /\ UNCHANGED <<cmds, i, nfork, hres, reaped, c2p, cpc, cur, funcs, opened, prot, shm,
                 hostmap, mem, unlinks, executed, acks, qdone, faults,
                 enable_host_modify, pureVars>>

\* a send that goes on to the next container after a failed acknowledgment
gtk_send_read_on ==
  /\ hpc = "g_ack"
  /\ LET c == cmds[i][1]
         code == cmds[i][2]
     IN IF c2p[c] # <<>>
        THEN LET ack == Head(c2p[c])
                 ok == ack # FailureByte /\ ack = code
             IN /\ c2p' = [c2p EXCEPT ![c] = Tail(c2p[c])]
                /\ IF i < 2
                   THEN /\ i' = i + 1
                        /\ hpc' = "g_send"
                        /\ UNCHANGED hres
                   ELSE /\ i' = 1
                        /\ hres' = ok
                        /\ hpc' = IF code = "m" THEN "g_idle"
                                  ELSE IF ~ok THEN "aborted"
                                  ELSE IF code = "x" THEN "g_wait" ELSE "g_idle"
        ELSE /\ AckWriterGone(c)
             /\ hpc' = "aborted"
             /\ UNCHANGED <<c2p, hres, i>>
  /\ UNCHANGED <<cmds, nfork, reaped, p2c, cpc, cur, funcs, opened, prot, shm, hostmap,
                 mem, unlinks, written, executed, acks, qdone, faults,
                 enable_host_modify, pureVars>>

\* what the caller of send does with its result: main, tick and on_shutdown
\* assert it, container_modify drops it
gtk_after_send(code, ok) ==
  CASE code = "m" -> "g_idle"
    [] code = "x" -> IF ok THEN "g_wait" ELSE "aborted"
    [] OTHER -> IF ok THEN "g_idle" ELSE "aborted"

\* send, one round from its blocking read on: assert(read(c2p[R], &ack, 1) == 1);
\* CMD_FAILED or another byte than the code returns false; after the second
\* round send returns true. At end of file read returns 0 and the assert aborts.
gtk_send_read ==
  /\ hpc = "g_ack"
  /\ LET c == cmds[i][1]
         code == cmds[i][2]
     IN IF c2p[c] # <<>>
        THEN LET ack == Head(c2p[c])
                 ok == ack # FailureByte /\ ack = code
             IN /\ c2p' = [c2p EXCEPT ![c] = Tail(c2p[c])]
                /\ IF ok /\ i < 2
                   THEN /\ i' = i + 1
                        /\ hpc' = "g_send"
                        /\ UNCHANGED hres
                   ELSE /\ i' = 1
                        /\ hres' = ok
                        /\ hpc' = gtk_after_send(code, ok)
        ELSE /\ AckWriterGone(c)
             /\ hpc' = "aborted"
             /\ UNCHANGED <<c2p, hres, i>>
  /\ UNCHANGED <<cmds, nfork, reaped, p2c, cpc, cur, funcs, opened, prot, shm, hostmap,
                 mem, unlinks, written, executed, acks, qdone, faults,
                 enable_host_modify, pureVars>>

\* tick, the timer callback: with enable_host_modify five random cells of the
\* grid are flipped; then assert(send(CMD_TICK))
gtk_tick ==
  /\ hpc = "g_idle"
  /\ TickCount < MaxTicks
  /\ \E g \in IF enable_host_modify THEN toggle_n({mem.ro}, HostToggles) ELSE {mem.ro} :
       mem' = [mem EXCEPT !.ro = g]
  /\ cmds' = Broadcast("t")
  /\ hpc' = "g_send"
  /\ UNCHANGED <<i, nfork, hres, reaped, p2c, c2p, cpc, cur, funcs, opened, prot, shm,
                 hostmap, unlinks, written, executed, acks, qdone, faults,
                 enable_host_modify, pureVars>>

\* host_modify, the button callback
gtk_host_modify ==
  /\ hpc = "g_idle"
  /\ enable_host_modify' = ~enable_host_modify
  /\ UNCHANGED <<cmds, hpc, i, nfork, hres, reaped, p2c, c2p, cpc, cur, funcs, opened,
                 prot, shm, hostmap, mem, unlinks, written, executed, acks, qdone, faults,
                 pureVars>>

\* container_modify, the button callback: send(CMD_MODIFY_GRID)
gtk_container_modify ==
  /\ hpc = "g_idle"
  /\ cmds' = Broadcast("m")
  /\ hpc' = "g_send"
  /\ UNCHANGED <<i, nfork, hres, reaped, p2c, c2p, cpc, cur, funcs, opened, prot, shm,
                 hostmap, mem, unlinks, written, executed, acks, qdone, faults,
                 enable_host_modify, pureVars>>

\* app_close quits the application, which runs on_shutdown: assert(send(CMD_EXIT))
gtk_on_shutdown ==
  /\ hpc = "g_idle"
  /\ cmds' = Broadcast("x")
  /\ hpc' = "g_send"
  /\ UNCHANGED <<i, nfork, hres, reaped, p2c, c2p, cpc, cur, funcs, opened, prot, shm,
                 hostmap, mem, unlinks, written, executed, acks, qdone, faults,
                 enable_host_modify, pureVars>>

\* on_shutdown: wait(NULL) returns as soon as one child has terminated
gtk_wait ==
  /\ hpc = "g_wait"
  /\ \E c \in Containers :
       /\ Terminated(c)
       /\ c \notin reaped
       /\ reaped' = reaped \cup {c}
  /\ hpc' = "g_teardown"
  /\ UNCHANGED <<cmds, i, nfork, hres, p2c, c2p, cpc, cur, funcs, opened, prot, shm,
                 hostmap, mem, unlinks, written, executed, acks, qdone, faults,
                 enable_host_modify, pureVars>>

\* how far the four asserted teardown calls of on_shutdown get: the number of
\* calls that succeeded before one returned -1, 4 when none did
GtkTeardownEnds == 0..4

\* on_shutdown: assert(munmap(ro)), assert(munmap(rw)), assert(shm_unlink(ro)),
\* assert(shm_unlink(rw)); then g_application_run and main return
gtk_teardown ==
  /\ hpc = "g_teardown"
  /\ \E n \in GtkTeardownEnds :
       /\ hostmap' = [ro |-> hostmap.ro /\ n < 1, rw |-> hostmap.rw /\ n < 2]
       /\ shm' = [ro |-> IF n >= 3 THEN "unlinked" ELSE shm.ro,
                  rw |-> IF n >= 4 THEN "unlinked" ELSE shm.rw]
       /\ unlinks' = [ro |-> IF n >= 3 THEN unlinks.ro + 1 ELSE unlinks.ro,
                      rw |-> IF n >= 4 THEN unlinks.rw + 1 ELSE unlinks.rw]
       /\ hpc' = IF n = 4 THEN "done" ELSE "aborted"
       /\ faults' = IF n = 4 THEN faults
                    ELSE faults \cup {IF n < 2 THEN "munmap" ELSE "shm_unlink"}
  /\ UNCHANGED <<cmds, i, nfork, hres, reaped, p2c, c2p, cpc, cur, funcs, opened, prot,
                 mem, written, executed, acks, qdone, enable_host_modify, pureVars>>

\* How init_module(module_name) && map_shared_buffers() can end:
\*   "module"  init_module returns false
\*   "map"     map_shared_buffers returns false (the guest malloc_ or
\*             create_context call fails, or a shm_open fails)
\*   "mmap"    mmap does not land on the aligned address: assert fails
\*   "ok"      both return true
GtkStartEnds == {"module", "map", "mmap", "ok"}

\* a container main that sends the ready byte before it initialises, as the
\* terminal container does
gtk_container_main_ready_first(c) ==
  /\ cpc[c] = "g_start"
  /\ \E e \in GtkStartEnds :
       /\ faults' = faults \cup ({e} \ {"ok"})
       /\ cpc' = [cpc EXCEPT ![c] = CASE e = "ok" -> "g_loop"
                                      [] e = "mmap" -> "crashed"
                                      [] OTHER -> "exited"]
       /\ c2p' = [c2p EXCEPT ![c] = Append(c2p[c], ReadyByte)]
       /\ funcs' = [funcs EXCEPT ![c] = e # "module"]
       /\ prot' = IF e = "ok" THEN [prot EXCEPT ![c] = [ro |-> "r", rw |-> "rw"]] ELSE prot
  /\ UNCHANGED <<cmds, hpc, i, nfork, hres, reaped, p2c, cur, opened, shm, hostmap, mem,
                 unlinks, written, executed, acks, qdone, enable_host_modify, pureVars>>

\* container main: if (init_module(module_name) && map_shared_buffers())
\* { send(CMD_READY); command_loop(); } and, when the condition is false,
\* destroy_context(), destroy_module() and the end of the process
gtk_container_main(c) ==
  /\ cpc[c] = "g_start"
  /\ \E e \in GtkStartEnds :
       /\ faults' = faults \cup ({e} \ {"ok"})
       /\ cpc' = [cpc EXCEPT ![c] = CASE e = "ok" -> "g_loop"
                                      [] e = "mmap" -> "crashed"
                                      [] OTHER -> "exited"]
       /\ c2p' = IF e = "ok" THEN [c2p EXCEPT ![c] = Append(c2p[c], ReadyByte)] ELSE c2p
       /\ funcs' = [funcs EXCEPT ![c] = e # "module"]
       /\ prot' = IF e = "ok" THEN [prot EXCEPT ![c] = [ro |-> "r", rw |-> "rw"]] ELSE prot
  /\ UNCHANGED <<cmds, hpc, i, nfork, hres, reaped, p2c, cur, opened, shm, hostmap, mem,
                 unlinks, written, executed, acks, qdone, enable_host_modify, pureVars>>

\* command_loop: assert(read(ctx.read_fd, &cmd, 1) == 1), a byte is there
gtk_command_loop_read(c) ==
  /\ cpc[c] = "g_loop"
  /\ p2c[c] # <<>>
  /\ cur' = [cur EXCEPT ![c] = Head(p2c[c])]
  /\ p2c' = [p2c EXCEPT ![c] = Tail(p2c[c])]
  /\ cpc' = [cpc EXCEPT ![c] = "g_processing"]
  /\ UNCHANGED <<cmds, hpc, i, nfork, hres, reaped, c2p, funcs, opened, prot, shm, hostmap,
                 mem, unlinks, written, executed, acks, qdone, faults, enable_host_modify,
                 pureVars>>

\* command_loop: read returns 0 at end of file and the assert aborts the process
gtk_command_loop_eof(c) ==
  /\ cpc[c] = "g_loop"
  /\ p2c[c] = <<>>
  /\ CmdWriterGone(c)
  /\ cpc' = [cpc EXCEPT ![c] = "crashed"]
  /\ prot' = [prot EXCEPT ![c] = [r \in Regions |-> "none"]]
  /\ UNCHANGED <<cmds, hpc, i, nfork, hres, reaped, p2c, c2p, cur, funcs, opened,
                 shm, hostmap, mem, unlinks, written, executed, acks, qdone, faults,
                 enable_host_modify, pureVars>>

\* command_loop: the switch on cmd, as pairs <<result, regions afterwards>>. The
\* result is "ok" when wasm_call(...).ok is true, "trap" when the engine ends
\* the call with a trap and .ok is false, and "segv" when the guest's store
\* faults on the mapping; the default case gives error(...), false.
gtk_command_switch(c, cmd) ==
  CASE cmd = "i" -> {<<"ok", m>> : m \in IF c = 0 THEN hunter_init(mem) ELSE runner_init(mem)}
                      \cup {<<"trap", mem>>}
    [] cmd = "t" -> {<<"ok", m>> : m \in IF c = 0 THEN hunter_tick(mem) ELSE runner_tick(mem)}
                      \cup {<<"trap", mem>>}
    [] cmd = "m" -> (IF c # 0 THEN {<<"ok", mem>>}
                     ELSE IF prot[c].ro # "rw" THEN {<<"segv", mem>>}
                     ELSE {<<"ok", hunter_modify_grid(mem)>>})
                      \cup {<<"trap", mem>>}
    [] OTHER -> {<<"fail", mem>>}

\* command_loop: one command handled, from the switch to the ack; CMD_EXIT is
\* answered and the function returns
gtk_command_loop_exec(c) ==
  /\ cpc[c] = "g_processing"
  /\ LET cmd == cur[c] IN
     \E out \in IF cmd = "x" THEN {<<"ok", mem>>} ELSE gtk_command_switch(c, cmd) :
       LET ok == out[1] = "ok"
           byte == IF ok THEN cmd ELSE FailureByte
       IN /\ executed' = Append(executed, <<c, cmd>>)
          /\ mem' = out[2]
          /\ faults' = IF out[1] = "trap" THEN faults \cup {"trap"} ELSE faults
          /\ IF out[1] = "segv"
             THEN /\ cpc' = [cpc EXCEPT ![c] = "crashed"]
                  /\ prot' = [prot EXCEPT ![c] = [r \in Regions |-> "none"]]
                  /\ UNCHANGED <<c2p, acks>>
             ELSE /\ c2p' = [c2p EXCEPT ![c] = Append(c2p[c], byte)]
                  /\ acks' = Append(acks, <<c, cmd, byte>>)
                  /\ cpc' = [cpc EXCEPT ![c] = IF cmd = "x" \/ ~ok THEN "g_shutdown"
                                               ELSE "g_loop"]
                  /\ UNCHANGED prot
  /\ UNCHANGED <<cmds, hpc, i, nfork, hres, reaped, p2c, cur, funcs, opened, shm, hostmap,
                 unlinks, written, qdone, enable_host_modify, pureVars>>

\* main: destroy_context() unmaps the regions, destroy_module(), the process ends
gtk_container_destroy(c) ==
  /\ cpc[c] = "g_shutdown"
  /\ cpc' = [cpc EXCEPT ![c] = "exited"]
  /\ prot' = [prot EXCEPT ![c] = [r \in Regions |-> "none"]]
  /\ UNCHANGED <<cmds, hpc, i, nfork, hres, reaped, p2c, c2p, cur, funcs, opened,
                 shm, hostmap, mem, unlinks, written, executed, acks, qdone, faults,
                 enable_host_modify, pureVars>>

NextGtk ==
  \/ gtk_main_create
  \/ gtk_fork_container
  \/ gtk_fork_ready
  \/ gtk_send_write
  \/ gtk_send_read
  \/ gtk_tick
  \/ gtk_host_modify
  \/ gtk_container_modify
  \/ gtk_on_shutdown
  \/ gtk_wait
  \/ gtk_teardown
  \/ \E c \in Containers :
       \/ gtk_container_main(c)
       \/ gtk_command_loop_read(c)
       \/ gtk_command_loop_eof(c)
       \/ gtk_command_loop_exec(c)
       \/ gtk_container_destroy(c)

SpecGtk == InitGtk /\ [][NextGtk]_vars

\* both shipped coordinators: the terminal host with its shipped list, and the
\* GTK host
InitCoordinators == InitShipped \/ InitGtk
NextCoordinators == Next \/ NextGtk
SpecCoordinators == InitCoordinators /\ [][NextCoordinators]_vars

----------------------------------------------------------------------------
(* Histories per container *)

WrittenTo(c) == SelectSeq(written, LAMBDA p : p[1] = c)
ExecutedBy(c) == SelectSeq(executed, LAMBDA p : p[1] = c)
AcksOf(c) == SelectSeq(acks, LAMBDA a : a[1] = c)
Last(s) == s[Len(s)]

\* the command lists that host.c itself holds
SourceCmdLists == {CrashCmds, SequentialCmds, ShippedCmds}

RoPattern == setup_shared_buf(RoSize, "ro")
RwPattern == setup_shared_buf(RwSize, "rw")

----------------------------------------------------------------------------
(* Properties *)

\* C1, as stated: every command byte written to a container gets exactly one ack
\* byte, the command byte or '*'. Whenever the host is not inside a send, each
\* container has acknowledged every byte written to it. Stated for the command
\* lists of host.c and the runs in which nothing fails in the surroundings.
C1_EveryCommandAcked ==
  (cmds \in SourceCmdLists /\ faults = {} /\ hpc # "ack") =>
    \A c \in Containers :
      /\ Len(AcksOf(c)) = Len(WrittenTo(c))
      /\ \A k \in 1..Len(AcksOf(c)) :
           AcksOf(c)[k][3] \in {WrittenTo(c)[k][2], FailureByte}

\* C1, amended: a container answers the command bytes in the order written, each
\* with at most one ack byte, which is the command byte or '*'; a container that
\* waits in its command loop has answered every byte written to it; and a
\* command handled without an ack is one that killed the process: 'q' or 'i', or
\* a guest call before init_module has set the function references.
C1_AckedUnlessKilled ==
  \A c \in Containers :
    LET w == WrittenTo(c)
        e == ExecutedBy(c)
        a == AcksOf(c)
    IN /\ Len(a) <= Len(e) /\ Len(e) <= Len(w)
       /\ \A k \in 1..Len(a) :
            /\ a[k][2] = w[k][2]
            /\ a[k][3] \in {w[k][2], FailureByte}
       /\ (cpc[c] = "loop" /\ p2c[c] = <<>>) => Len(a) = Len(w)
       /\ Len(e) > Len(a) =>
            /\ Len(e) = Len(a) + 1
            /\ cpc[c] = "crashed"
            /\ Last(e)[2] \in {"q", "i"} \/ ~funcs[c]

\* C1 witness: a container has acknowledged its first command with the command
\* byte and was then killed by 'q' without an ack, after the other container
\* had acknowledged a command too
C1_Witness ==
  \E c \in Containers :
    /\ c \in qdone
    /\ cpc[c] = "crashed"
    /\ Len(AcksOf(c)) >= 1
    /\ AcksOf(c)[1][3] = AcksOf(c)[1][2]
    /\ Len(AcksOf(c)) < Len(WrittenTo(c))
    /\ \E d \in Containers \ {c} : Len(AcksOf(d)) >= 1

\* the containers that hold a command not yet read or not yet answered
InFlight == {c \in Containers : p2c[c] # <<>> \/ cpc[c] = "processing"}

\* C2: the host never has more than one command in flight: at most one container
\* holds an unread or unfinished command, no pipe ever holds two bytes, and
\* when the host is about to write, every written command has been handled and
\* its ack read.
C2_OneCommandInFlight ==
  /\ Cardinality(InFlight) <= 1
  /\ \A c \in Containers :
       /\ Len(p2c[c]) <= 1
       /\ Len(c2p[c]) <= 1
       /\ (p2c[c] # <<>> /\ cpc[c] = "processing") => FALSE
  /\ hpc = "loop" =>
       /\ InFlight = {}
       /\ \A c \in Containers : c2p[c] = <<>>
       /\ Len(written) = i - 1
       /\ Len(executed) = Len(written)

\* C2 witness: container 1 is handling a command after container 0 has handled
\* and acknowledged others
C2_Witness ==
  /\ cpc[1] = "processing"
  /\ Len(AcksOf(0)) >= 2
  /\ cpc[0] = "loop"

\* C3, as stated: no shared memory object is unlinked while a forked container
\* is still running. Stated for the command lists of host.c and the runs in
\* which nothing fails in the surroundings.
C3_UnlinkAfterContainersExit ==
  (cmds \in SourceCmdLists /\ faults = {} /\ \E r \in Regions : shm[r] = "unlinked") =>
    \A c \in Containers : ~Running(c)

\* C4: no container ever holds write permission on the read-only region: it
\* opens it O_RDONLY and maps it readable only, while it maps the read-write
\* region readable and writable; and the bytes of the read-only region change
\* only in a step of the host (its setup_shared_buf).
C4_ReadOnlyStaysReadOnly ==
  /\ [](\A c \in Containers :
          /\ opened[c].ro \in {"none", "O_RDONLY"}
          /\ prot[c].ro \in {"none", "r"}
          /\ prot[c].rw \in {"none", "rw"}
          /\ (funcs[c] /\ cpc[c] \in {"loop", "processing"}) =>
               (prot[c].ro = "r" /\ prot[c].rw = "rw"))
  /\ [][mem'.ro # mem.ro => (hpc = "setup_ro" /\ hpc' = "setup_rw" /\ cpc' = cpc)]_vars

\* C4 witness: a container initialised both mappings, handled a write-ro command,
\* and the other container still holds its mappings
C4_Witness ==
  /\ qdone # {}
  /\ \E c \in Containers : prot[c].ro = "r" /\ prot[c].rw = "rw" /\ cpc[c] = "loop"

\* what verify_shared_bufs returns in container d, were 'v' handled now
VerifyOk(d) == \A out \in verify_shared_bufs(d) : out.res = "ok"

\* C5, as stated: a write-ro command to an initialised container kills it
\* without an ack and leaves the read-only region unchanged, so that verify in
\* a second initialised container succeeds.
C5_WriteRoThenVerifyOk ==
  \A c \in qdone :
    /\ cpc[c] = "crashed"
    /\ Last(ExecutedBy(c))[2] = "q"
    /\ Len(AcksOf(c)) = Len(ExecutedBy(c)) - 1
    /\ mem.ro = RoPattern
    /\ \A d \in Containers \ {c} :
         (funcs[d] /\ cpc[d] = "loop") => VerifyOk(d)

\* C5, amended: a write-ro command to an initialised container kills it without
\* an ack and leaves every byte of the read-only region unchanged, so that the
\* read-only region still scans clean in a second initialised container; its
\* verify as a whole succeeds when no write-rw has been handled before.
C5_WriteRoKillsAndKeepsRo ==
  \A c \in qdone :
    /\ cpc[c] = "crashed"
    /\ Last(ExecutedBy(c))[2] = "q"
    /\ Len(AcksOf(c)) = Len(ExecutedBy(c)) - 1
    /\ c2p[c] = <<>>
    /\ mem.ro = RoPattern
    /\ \A d \in Containers \ {c} :
         (funcs[d] /\ cpc[d] = "loop") =>
           /\ scan_shared(mem.ro, RoSize, ModePrefix("ro")) = 0
           /\ (\A k \in 1..Len(executed) : executed[k][2] # "w") => VerifyOk(d)

\* C5 witness: container 0 was killed by 'q' while container 1 is initialised
\* and waits in its command loop
C5_Witness ==
  /\ 0 \in qdone
  /\ cpc[0] = "crashed"
  /\ funcs[1]
  /\ cpc[1] = "loop"
  /\ prot[1].ro = "r"

\* C6, as stated: when a container disappears after a write-ro command, the
\* host does not abort: it treats the missing ack as a failed command. Stated
\* for the command lists of host.c and the runs in which nothing else fails.
C6_HostToleratesLostContainer ==
  (cmds \in SourceCmdLists /\ faults = {} /\ qdone # {}) => hpc # "aborted"

\* C7: the sequence is fail-fast: once a send has returned failure the host is
\* out of its loop, and no further byte is written to any pipe.
C7_FailFast ==
  /\ [](~hres => hpc \in {"wait", "munmap", "unlink", "done", "failed"})
  /\ [][~hres => (written' = written
                  /\ \A c \in Containers : Len(p2c'[c]) <= Len(p2c[c]))]_vars

\* C7 witness: a send failed with pairs of the list left, and the host has run
\* to its end without writing them
C7_Witness ==
  /\ ~hres
  /\ hpc = "done"
  /\ Len(written) < Len(cmds)
  /\ Len(written) >= 2

\* C8: send returns success exactly when the byte read equals the command byte
\* written; the failure byte and every other byte give failure.
C8_SendResult ==
  ret # <<>> =>
    /\ ret[1] = (args.ack = args.cmd)
    /\ args.ack = FailureByte => ret[1] = FALSE
    /\ args.ack \notin {args.cmd, FailureByte} => ret[1] = FALSE

\* C8 witness: send has judged a byte that is neither the command byte nor '*'
C8_Witness ==
  /\ ret = <<FALSE>>
  /\ args.ack \notin {args.cmd, FailureByte}
  /\ args.ack \in CmdBytes

\* C9: the pairs handled by the containers, over all containers, are always a
\* prefix of the host's list: none reordered, skipped or handled twice.
C9_ExecutedIsPrefix ==
  /\ Len(executed) <= Len(cmds)
  /\ \A k \in 1..Len(executed) : executed[k] = cmds[k]

\* C9 witness: the whole shipped list has been handled, by both containers in turn
C9_Witness ==
  /\ cmds = ShippedCmds
  /\ executed = cmds

\* C10, as stated: on every run, also one that stopped at a failed command,
\* every container has been sent 'x' before the host waits and tears down.
\* Stated for the command lists of host.c.
C10_ExitSentToAll ==
  (cmds \in SourceCmdLists /\ hpc \in {"wait", "munmap", "unlink", "done"}) =>
    \A c \in Containers : \E k \in 1..Len(written) : written[k] = <<c, "x">>

\* C11: the host writes no command before it has read the ready byte: while it
\* sets up and forks nothing is written; a container that has been written to
\* has sent its '@' and the host has taken it out of the pipe; and until its
\* first command a container has written that one byte and nothing else.
C11_NoCommandBeforeReady ==
  /\ hpc \in {"setup_ro", "setup_rw", "fork", "ready"} =>
       (written = <<>> /\ \A c \in Containers : p2c[c] = <<>>)
  /\ \A c \in Containers :
       /\ WrittenTo(c) # <<>> =>
            /\ cpc[c] \notin {"none", "start"}
            /\ \A k \in 1..Len(c2p[c]) : c2p[c][k] # ReadyByte
       /\ WrittenTo(c) = <<>> =>
            /\ AcksOf(c) = <<>>
            /\ c2p[c] \in {<<>>, <<ReadyByte>>}
            /\ c2p[c] = <<ReadyByte>> => (hpc = "ready" /\ c = nfork - 1)

\* C11 witness: both containers have been sent a command and the host waits for
\* the ack of the second
C11_Witness ==
  /\ hpc = "ack"
  /\ Len(WrittenTo(0)) >= 1
  /\ Len(WrittenTo(1)) >= 1
  /\ cmds[i][1] = 1

\* C12: a container that handles 'x' answers it with 'x', once, and that is the
\* last command it reads and the last byte it writes: it is out of its loop, in
\* destroy() or ended.
C12_ExitAckedOnceThenEnds ==
  \A c \in Containers :
    \A k \in 1..Len(ExecutedBy(c)) :
      ExecutedBy(c)[k][2] = "x" =>
        /\ k = Len(ExecutedBy(c))
        /\ Len(AcksOf(c)) = k
        /\ AcksOf(c)[k] = <<c, "x", "x">>
        /\ \A j \in 1..(k - 1) : AcksOf(c)[j][2] # "x"
        /\ cpc[c] \in {"shutdown", "exited"}
        /\ Len(c2p[c]) <= 1

\* C12 witness: a container has ended after its 'x', and a command written to
\* it afterwards stays unread in its pipe
C12_Witness ==
  \E c \in Containers :
    /\ cpc[c] = "exited"
    /\ Last(AcksOf(c)) = <<c, "x", "x">>
    /\ p2c[c] # <<>>

\* C13: when an initialised container handles 'e' and the guest call traps, it
\* answers 'e' and is back in its command loop; when the call returns without
\* a trap it answers '*'.
C13_TrapContained ==
  [][\A c \in Containers :
       (cpc[c] = "processing" /\ cur[c] = "e" /\ funcs[c] /\ cpc'[c] # "processing") =>
         IF "notrap" \in faults' /\ "notrap" \notin faults
         THEN /\ acks' = Append(acks, <<c, "e", FailureByte>>)
              /\ c2p'[c] = Append(c2p[c], FailureByte)
         ELSE /\ acks' = Append(acks, <<c, "e", "e">>)
              /\ c2p'[c] = Append(c2p[c], "e")
              /\ cpc'[c] = "loop"
              /\ prot'[c] = prot[c]]_vars

\* C13 witness: an initialised container has answered 'e' with 'e' and then
\* answered a further command with its command byte
C13_Witness ==
  \E c \in Containers :
    \E k \in 2..(Len(AcksOf(c)) - 1) :
      /\ AcksOf(c)[1] = <<c, "i", "i">>
      /\ AcksOf(c)[k] = <<c, "e", "e">>
      /\ AcksOf(c)[k + 1][3] = AcksOf(c)[k + 1][2]

\* the ack at position n answers a verify of a container that has answered an
\* initialize with 'i' before
VerifyAfterInit(n) ==
  /\ acks[n][2] = "v"
  /\ \E m \in 1..(n - 1) : acks[m] = <<acks[n][1], "i", "i">>

\* a verify handled by an initialised container is always answered
VerifyAnswered ==
  \A c \in Containers :
    (funcs[c] /\ ExecutedBy(c) # <<>> /\ Last(ExecutedBy(c))[2] = "v") =>
      Len(AcksOf(c)) = Len(ExecutedBy(c))

\* C14, as stated: a verify after the container's successful initialize is
\* answered 'v', whatever was handled in between. Stated for the runs in which
\* nothing fails in the surroundings.
C14_VerifyAfterInitOk ==
  faults = {} =>
    /\ VerifyAnswered
    /\ \A n \in 1..Len(acks) : VerifyAfterInit(n) => acks[n][3] = "v"

\* C14, amended: a verify after the container's successful initialize is
\* answered 'v' when no container has handled a write-rw before it; the bytes
\* write-rw stores replace fill bytes that verify checks.
C14_VerifyOkUntilWriteRw ==
  /\ VerifyAnswered
  /\ \A n \in 1..Len(acks) :
       (VerifyAfterInit(n) /\ \A m \in 1..(n - 1) : acks[m][2] # "w") => acks[n][3] = "v"

\* C14 witness: a container has answered 'v' with 'v' after its initialize and
\* at least one other command handled in between
C14_Witness ==
  \E n \in 3..Len(acks) :
    /\ acks[n][3] = "v"
    /\ VerifyAfterInit(n)
    /\ \E m \in 1..(n - 2) : acks[m] = <<acks[n][1], "i", "i">>
    /\ acks[n - 1][2] \in {"m", "e", "r", "?"}

\* C15, as stated: after write_rw(pos, start, len), read_rw with the same
\* arguments reports 0 and read_rw with any other start value reports non-zero.
C15_ReadBackAnyStart ==
  ret # <<>> =>
    /\ ret[1] = 0
    /\ args.other # args.start => ret[2] # 0

\* C15, amended: after write_rw(pos, start, len), read_rw with the same arguments
\* reports 0, and read_rw with another start value reports non-zero exactly when
\* the two start values differ in their low eight bits.
C15_ReadBackModulo256 ==
  ret # <<>> =>
    /\ ret[1] = 0
    /\ ret[2] \in {0, 1}
    /\ ret[2] # 0 <=> ToUChar(args.other) # ToUChar(args.start)

\* C15 witness: a run of bytes that wraps from 255 to 0 was read back as
\* matching, and as not matching for another start value
C15_Witness ==
  /\ ret = <<0, 1>>
  /\ args.start = 255
  /\ args.len >= 2
  /\ args.pos > 0

\* C16: the shipped sequence, when nothing fails in the surroundings, runs to
\* its end: each of the ten commands is answered with its own command byte, in
\* order, no container crashes, no '*' is sent, the host neither aborts nor is
\* killed, and the host reaches the end of main.
C16_EndToEnd ==
  /\ [](faults = {} =>
          /\ hpc \notin {"aborted", "killed"}
          /\ hres
          /\ \A c \in Containers : cpc[c] # "crashed"
          /\ Len(acks) <= Len(cmds)
          /\ \A k \in 1..Len(acks) : acks[k] = <<cmds[k][1], cmds[k][2], cmds[k][2]>>
          /\ hpc \in {"wait", "munmap", "unlink", "done"} => Len(acks) = Len(cmds))
  /\ <>(faults # {} \/ hpc = "done")

\* C16 witness: the host is at its end with all ten commands answered, container
\* B having read what container A wrote
C16_Witness ==
  /\ cmds = ShippedCmds
  /\ hpc = "done"
  /\ faults = {}
  /\ Len(acks) = 10
  /\ acks[7] = <<1, "r", "r">>
  /\ mem.rw = write_rw(RwPattern, RwPos, RwVal, RwLen)

\* the address is no null pointer and lies at least a page below the top of
\* the address space, so that rounding up does not wrap
AlignInRange == args.p > 0 /\ args.p + args.page_size <= Word

\* C17, as stated: the result of page_align is a multiple of the page size
\* strictly greater than p, also for a p that is page-aligned already.
C17_AlwaysAdvances ==
  (ret # <<>> /\ AlignInRange) =>
    /\ ret[1] % args.page_size = 0
    /\ ret[1] > args.p

\* C17, amended: the result of page_align is the smallest multiple of the page
\* size that is not below p: a page-aligned p is returned unchanged, any other
\* p is rounded up to the next page boundary.
C17_RoundsUpUnlessAligned ==
  (ret # <<>> /\ AlignInRange) =>
    /\ ret[1] % args.page_size = 0
    /\ ret[1] >= args.p
    /\ ret[1] - args.p < args.page_size
    /\ args.p % args.page_size = 0 => ret[1] = args.p
    /\ args.p % args.page_size # 0 => ret[1] > args.p

\* C17 witness: page_align has returned a page-aligned address unchanged
C17_Witness ==
  /\ ret = <<args.p>>
  /\ args.p >= 2 * args.page_size
  /\ args.page_size >= 4

\* the size of the reservation as a number, whatever an int can hold
ReservationNeeded == args.ro_size + args.rw_size + 3 * args.page_size

PageEnd(addr, size) ==
  ((addr + size + args.page_size - 1) \div args.page_size) * args.page_size

\* the guest malloc returned a reservation: val is not its null pointer, and
\* the reservation ends inside a linear memory that an int can index (the
\* module is built with 64KB of memory)
ReservationInMemory == args.val # 0 /\ args.val + ReservationNeeded <= IntMax

\* C19: when the guest allocator returned a reservation and init_shared_bufs
\* reaches set_shared, the offsets passed are the mapped addresses less the
\* base of the linear memory, the mapped addresses are page-aligned, and the
\* two ranges, also when extended to whole pages, lie inside the reservation
\* [val, val + wasm_alloc_size) one after the other.
C19_OffsetsInsideReservation ==
  (ret # <<>> /\ ReservationInMemory) =>
    LET base == args.wasm_memory_base
        ro == ret[1].shift_ro
        rw == ret[1].shift_rw
    IN /\ ret[1].asserted
       /\ base + ro = ret[1].ro_buf
       /\ base + rw = ret[1].rw_buf
       /\ ret[1].ro_buf % args.page_size = 0
       /\ ret[1].rw_buf % args.page_size = 0
       /\ args.val <= ro
       /\ ro + args.ro_size <= rw
       /\ PageEnd(base + ro, args.ro_size) <= base + rw
       /\ rw + args.rw_size <= args.val + ret[1].wasm_alloc_size
       /\ PageEnd(base + rw, args.rw_size) <= base + args.val + ret[1].wasm_alloc_size

\* C19 witness: set_shared is reached with two regions that are no whole pages,
\* in a reservation that starts off a page boundary
C19_Witness ==
  /\ ret # <<>>
  /\ ReservationInMemory
  /\ ret[1].wasm_alloc_ptr % args.page_size # 0
  /\ args.ro_size % args.page_size # 0
  /\ args.rw_size % args.page_size # 0
  /\ ret[1].shift_rw > ret[1].shift_ro + args.ro_size

\* C20, as stated: for every region size, the scan of what setup_shared_buf
\* stored, with the prefix of the same mode, returns 0.
C20_PatternRoundTrip ==
  (ret # <<>> /\ args.prefix = args.mode) => ret[1] = 0

\* C20, amended: for every region size of at least 6 the scan with the prefix
\* of the same mode returns 0, and the scan with the prefix of the other mode
\* returns 1.
C20_PatternRoundTripFromSix ==
  (ret # <<>> /\ args.size >= 6) =>
    /\ args.prefix = args.mode => ret[1] = 0
    /\ args.prefix # args.mode => ret[1] = 1

\* C20 witness: a region with fill bytes between the prefix and the suffix has
\* scanned clean
C20_Witness ==
  /\ ret = <<0>>
  /\ args.size >= 9
  /\ args.mode = "rw"
  /\ args.prefix = "rw"

\* the region the result of verify_shared comes from: the read-write one only
\* when the read-only one holds the pattern
ScannedRegion == IF mem.ro = RoPattern THEN "rw" ELSE "ro"
ScannedSize == IF ScannedRegion = "ro" THEN RoSize ELSE RwSize

\* C21: verify is answered with 'v' exactly when verify_shared returns 0, which
\* it does exactly when both regions hold the pattern; otherwise the answer is
\* '*' and the result describes the first region that differs, the read-write
\* one being looked at only when the read-only one is clean: 1 when its prefix
\* differs, 2 when the prefix matches and the suffix differs, and else the
\* offset, at least 3, of its first wrong fill byte.
C21_VerifyResult ==
  ret # <<>> =>
    LET r == ret[1]
        buf == mem[ScannedRegion]
        size == ScannedSize
        prefixBad == Differs3(buf, 0, ModePrefix(ScannedRegion))
        suffixBad == Differs3(buf, size - 3, BufToken)
    IN /\ ret[2] \in {"v", FailureByte}
       /\ ret[2] = "v" <=> r = 0
       /\ r = 0 <=> (mem.ro = RoPattern /\ mem.rw = RwPattern)
       /\ r = 1 <=> prefixBad
       /\ r = 2 <=> (~prefixBad /\ suffixBad)
       /\ r \notin {0, 1, 2} =>
            /\ r \in 3..(size - 4)
            /\ buf[r] # FillByte(r)
            /\ \A j \in 3..(r - 1) : buf[j] = FillByte(j)

\* C21 witness: the read-only region is clean and the read-write one has two
\* wrong fill bytes; the result is the offset of the first and the answer is '*'
C21_Witness ==
  /\ ret # <<>>
  /\ mem.ro = RoPattern
  /\ ret[1] >= 3
  /\ ret[2] = FailureByte
  /\ \E j \in (ret[1] + 1)..(RwSize - 4) : mem.rw[j] # FillByte(j)

\* the ack at position n answers a stress-alloc of a container that has answered
\* an initialize with 'i' before
StressAllocAfterInit(n) ==
  /\ acks[n][2] = "m"
  /\ \E m \in 1..(n - 1) : acks[m] = <<acks[n][1], "i", "i">>

\* C22: a stress-alloc handled by an initialised container is always answered,
\* and the answer is 'm', never '*', whatever fill_memory returned.
C22_StressAllocAcked ==
  /\ \A c \in Containers :
       (funcs[c] /\ ExecutedBy(c) # <<>> /\ Last(ExecutedBy(c))[2] = "m") =>
         Len(AcksOf(c)) = Len(ExecutedBy(c))
  /\ \A n \in 1..Len(acks) : StressAllocAfterInit(n) => acks[n][3] = "m"

\* C22 witness: an initialised container has answered 'm' with 'm' twice
C22_Witness ==
  \E n \in 3..Len(acks) :
    /\ StressAllocAfterInit(n)
    /\ acks[n][3] = "m"
    /\ \E m \in 2..(n - 1) : StressAllocAfterInit(m) /\ acks[m][1] = acks[n][1]

\* C23: once a shm_open of the initialize command has failed, the container
\* that handled it has not crashed: it has answered that 'i' with '*', one
\* byte and its last, and has left its loop for destroy() or has ended.
C23_OpenFailureAnswered ==
  faults \cap {"shm_ro", "shm_rw"} # {} =>
    \E c \in Containers :
      /\ Last(executed) = <<c, "i">>
      /\ acks # <<>>
      /\ Last(acks) = <<c, "i", FailureByte>>
      /\ Len(AcksOf(c)) = Len(ExecutedBy(c))
      /\ cpc[c] \in {"shutdown", "exited"}
      /\ c2p[c] \in {<<>>, <<FailureByte>>}

\* C23 witness: the read-write object could not be opened after the read-only
\* one was mapped; the container has answered '*' and ended, the host has read
\* the '*'
C23_Witness ==
  \E c \in Containers :
    /\ "shm_rw" \in faults
    /\ cpc[c] = "exited"
    /\ opened[c].ro = ro_open_flags
    /\ Last(acks) = <<c, "i", FailureByte>>
    /\ ~hres

\* C24, as stated: when the initialize command finds the instance without the
\* export "memory" or without one of the required functions, the container
\* aborts: it ends by a failed assertion, without answering the command, and
\* not through the '*' and destroy() of a command that failed. Stated for the
\* shipped command list.
C24_MissingExportAborts ==
  (cmds = ShippedCmds /\ "exports" \in faults) =>
    \E c \in Containers :
      /\ Last(executed) = <<c, "i">>
      /\ cpc[c] = "crashed"
      /\ Len(AcksOf(c)) < Len(ExecutedBy(c))

\* C25, as stated: when the host has ended, each of the two names has been
\* unlinked exactly once, whatever the teardown calls returned. Stated for the
\* shipped command list and the runs in which nothing but a teardown call fails.
C25_BothUnlinkedOnce ==
  (cmds = ShippedCmds /\ faults \subseteq {"munmap", "shm_unlink"} /\ HostTerminated) =>
    \A r \in Regions : unlinks[r] = 1

C27_WrittenBeforeFork ==
  (\E c \in Containers : cpc[c] # "none") =>
    /\ hpc \notin {"setup_ro", "setup_rw"}
    /\ \A r \in Regions : shm[r] # "absent"
    /\ mem.ro = RoPattern
    /\ mem.rw \in {RwPattern, write_rw(RwPattern, RwPos, RwVal, RwLen)}
    /\ mem.rw # RwPattern => \E k \in 1..Len(executed) : executed[k][2] = "w"

\* C27 witness: the first container has just been forked and has not run yet;
\* both regions hold their patterns
C27_Witness ==
  /\ nfork = 1
  /\ cpc = [c \in Containers |-> IF c = 0 THEN "start" ELSE "none"]
  /\ mem = [ro |-> RoPattern, rw |-> RwPattern]

\* C30: a container that has answered a command with '*' has left its command
\* loop: that command is the last it read and the '*' the last byte it wrote,
\* and it is in destroy() or has ended, so a byte written to it later would
\* stay unread.
C30_FailureEndsLoop ==
  \A c \in Containers :
    \A k \in 1..Len(AcksOf(c)) :
      AcksOf(c)[k][3] = FailureByte =>
        /\ k = Len(AcksOf(c))
        /\ k = Len(ExecutedBy(c))
        /\ cpc[c] \in {"shutdown", "exited"}
        /\ cur[c] = AcksOf(c)[k][2]
        /\ Len(c2p[c]) <= 1

\* C30 witness: a container has ended after answering its third command with
\* '*', the two before with their command bytes
C30_Witness ==
  \E c \in Containers :
    /\ cpc[c] = "exited"
    /\ Len(AcksOf(c)) = 3
    /\ AcksOf(c)[3][3] = FailureByte
    /\ AcksOf(c)[2][3] = AcksOf(c)[2][2]

\* the containers inside a command handler: the command read, the ack not sent
Handling == {c \in Containers : cpc[c] \in {"processing", "g_processing"}}
\* a command is written and not yet answered
CommandInFlight == \E c \in Containers : p2c[c] # <<>> \/ c \in Handling
\* the host is where it reads or writes the regions: the setup of the terminal
\* host; in the GTK host main before the forks, and the callbacks tick and
\* draw_fn, which run between two sends
HostAtRegions == hpc \in {"setup_ro", "setup_rw", "g_create", "g_idle"}

\* C28: in both shipped coordinators at most one container is inside a command
\* handler at any time, and the host is then blocked in the read of that
\* container's ack; where the host reads or writes the regions no command is
\* in flight; and every change of the regions' content is made either by the
\* host at such a place or by the one container inside a handler.
C28_SingleWriter ==
  /\ [](/\ Cardinality(Handling) <= 1
        /\ HostAtRegions => ~CommandInFlight
        /\ \A c \in Handling : hpc \in {"ack", "g_ack"} /\ cmds[i][1] = c)
  /\ [][mem' # mem =>
          IF hpc' # hpc THEN HostAtRegions /\ ~CommandInFlight
          ELSE \E c \in Handling : cpc'[c] # cpc[c] /\ Handling = {c}]_vars

\* C28 witness: the GTK host has flipped grid cells in tick and sent the tick;
\* the hunter has answered it and the runner container is inside its handler
C28_Witness ==
  /\ hpc = "g_ack"
  /\ enable_host_modify
  /\ Handling = {1}
  /\ cur[1] = "t"
  /\ Last(acks) = <<0, "t", "t">>
  /\ mem.ro \notin init_grid

----------------------------------------------------------------------------
(* Termination of the terminal coordinator and of its containers *)

\* C29: under fair scheduling every run of the terminal coordinator reaches
\* its teardown (the munmap call of main) after finitely many steps, and every
\* forked container terminates in the end, when the sequence completes as
\* well as when it stops at a failed command.
C29_Terminates ==
  /\ <>(hpc = "munmap")
  /\ <>[](\A c \in Containers : Terminated(c))

----------------------------------------------------------------------------
(* Bytes that are no command code *)

\* C31: a container that reads a byte that is not one of its command codes
\* never acknowledges it as success: every ack of such a byte is the failure
\* byte '*', never an echo of the byte.
C31_UnknownByteRefused ==
  \A n \in 1..Len(acks) :
    acks[n][2] \notin CommandCodes => acks[n][3] = FailureByte

----------------------------------------------------------------------------
(* Commands that reach a container before its initialize *)

\* the commands whose handlers call a guest export through fn_call
GuestCallCodes == {"v", "m", "w", "r", "q", "e"}

\* C32: in the terminal container no guest export is called before initialize
\* has succeeded there: a v, m, w, r, q or e command handled by a container
\* whose module is not initialised is answered with the failure byte, and the
\* container does not die in it from a call through an unset function reference.
C32_NoCallBeforeInit ==
  \A c \in Containers :
    LET a == AcksOf(c)
        e == ExecutedBy(c)
        before_init(n) == \A m \in 1..(n - 1) : e[m][2] # "i"
    IN /\ \A n \in 1..Len(a) :
            (a[n][2] \in GuestCallCodes /\ before_init(n)) => a[n][3] = FailureByte
       /\ \A n \in 1..Len(e) :
            (e[n][2] \in GuestCallCodes /\ before_init(n)) => Len(a) >= n

----------------------------------------------------------------------------
(* setup_shared_buf as the stores it makes into the mapping *)

\* sprintf(shared + off, "%s", chars): the characters, then the terminating NUL
sprintf_stores(off, chars) ==
  [k \in 1..(Len(chars) + 1) |->
     [off |-> off + k - 1, val |-> IF k <= Len(chars) THEN chars[k] ELSE 0]]

\* setup_shared_buf: sprintf(shared, "%s:", mode), sprintf(shared + size - 3,
\* "buf"), then shared[i] = v[i % 2] for i in 3..size-4, in program order
setup_shared_buf_stores(size, mode) ==
  sprintf_stores(0, ModePrefix(mode))
    \o sprintf_stores(size - 3, BufToken)
    \o [j \in 1..(IF size > 6 THEN size - 6 ELSE 0) |->
          [off |-> j + 2, val |-> FillByte(j + 2)]]

\* the bytes at offsets 0..size-1 after the stores, starting from the zero fill
RECURSIVE apply_stores(_, _)
apply_stores(buf, stores) ==
  IF stores = <<>> THEN buf
  ELSE apply_stores([k \in DOMAIN buf |-> IF k = Head(stores).off THEN Head(stores).val
                                          ELSE buf[k]],
                    Tail(stores))

InitSetup ==
  /\ cmds = <<>>
  /\ InitProcesses
  /\ args \in [size : PatternSizes, mode : Regions]
  /\ ret = <<>>

apply_setup ==
  /\ ret = <<>>
  /\ ret' = <<setup_shared_buf_stores(args.size, args.mode)>>
  /\ UNCHANGED <<protoVars, args>>

NextSetup == apply_setup

SpecSetup == InitSetup /\ [][NextSetup]_vars

\* the stores give the region the content that the containers scan
StoresGivePattern ==
  ret # <<>> => apply_stores(ZeroBuf(args.size), ret[1]) = setup_shared_buf(args.size, args.mode)

\* C33: setup_shared_buf writes only bytes at offsets 0 to size-1 of the region
\* it creates: for every size of at least 6, no store made while the prefix,
\* the fill and the suffix are written goes to offset size or beyond.
C33_StoresInsideRegion ==
  (ret # <<>> /\ args.size >= 6) =>
    \A k \in 1..Len(ret[1]) : ret[1][k].off \in 0..(args.size - 1)

----------------------------------------------------------------------------
(* One round of the GTK containers' command_loop, as a function of the byte
   read and of how the guest call ends. The repository holds two GTK
   containers: the self-contained one that calls the engine itself (fn_call)
   and the one built on the engine wrapper (wasm_call). *)

\* common.h Command: CMD_INIT, CMD_TICK, CMD_MODIFY_GRID, CMD_EXIT
GtkCommandCodes == {"i", "t", "m", "x"}
\* the bytes a container can read from its pipe
LoopBytes == GtkCommandCodes \cup CmdBytes \cup {ReadyByte, FailureByte, NoByte}
\* how a guest call ends: it returns, it traps (ok is false), or the process is
\* killed in it (a store through the read-only mapping)
CallEnds == {"return", "trap", "killed"}
GtkContainers == {"fn_call", "wasm_call"}

\* command_loop of the container built on the engine wrapper: every case of
\* the switch ends with break
switch_wasm_call(cmd, end) ==
  CASE cmd \in {"i", "t", "m"} -> end = "return"
    [] OTHER -> FALSE

\* command_loop of the self-contained container: case CMD_MODIFY_GRID has no
\* break and runs on into default, which sets ok = error(...)
switch_fn_call(cmd, end) ==
  CASE cmd \in {"i", "t"} -> end = "return"
    [] cmd = "m" -> FALSE
    [] OTHER -> FALSE

\* one round of command_loop after the read: the switch, then send(cmd) or
\* send(CMD_FAILED) and the test of while (ok); CMD_EXIT is answered and the
\* function returns
command_loop_round(build, cmd, end) ==
  IF cmd = "x" THEN [ack |-> cmd, next |-> "return"]
  ELSE IF cmd \in {"i", "t", "m"} /\ end = "killed" THEN [ack |-> NoByte, next |-> "killed"]
  ELSE LET ok == IF build = "fn_call" THEN switch_fn_call(cmd, end)
                 ELSE switch_wasm_call(cmd, end)
       IN [ack |-> IF ok THEN cmd ELSE FailureByte,
           next |-> IF ok THEN "loop" ELSE "return"]

InitLoop ==
  /\ cmds = <<>>
  /\ InitProcesses
  /\ args \in [build : GtkContainers, cmd : LoopBytes, end : CallEnds]
  /\ ret = <<>>

apply_loop_round ==
  /\ ret = <<>>
  /\ ret' = <<command_loop_round(args.build, args.cmd, args.end)>>
  /\ UNCHANGED <<protoVars, args>>

NextLoop == apply_loop_round

SpecLoop == InitLoop /\ [][NextLoop]_vars

\* C34: in every GTK container command loop a modify-grid command whose guest
\* call returns without a trap is acknowledged with the command byte 'm' and
\* the container stays in its loop; only a trapped call yields the failure byte.
C34_ModifyGridAcked ==
  (ret # <<>> /\ args.cmd = "m") =>
    /\ args.end = "return" => ret[1] = [ack |-> "m", next |-> "loop"]
    /\ ret[1].ack = FailureByte => args.end = "trap"

----------------------------------------------------------------------------
(* The broadcast of the GTK host *)

\* the host takes an ack byte out of a pipe and its send returns to the caller
SendReturns ==
  /\ hpc = "g_ack"
  /\ hpc' \notin {"g_ack", "g_send"}
  /\ Len(c2p'[cmds[i][1]]) < Len(c2p[cmds[i][1]])

\* C35: the GTK host's send broadcasts one command to both containers strictly
\* in index order: container 1 is written to only after container 0 has
\* acknowledged with the command byte and the host has read that ack; send
\* returns true only if both acknowledged with the command byte; and when
\* container 0 fails, send returns false without writing the command to
\* container 1.
C35_BroadcastInOrder ==
  /\ [](/\ \A k \in 1..Len(written) :
             written[k][1] = 1 => (k > 1 /\ written[k - 1] = <<0, written[k][2]>>)
        /\ \A j \in 1..Len(WrittenTo(1)) :
             /\ Len(AcksOf(0)) >= j
             /\ AcksOf(0)[j] = <<0, WrittenTo(1)[j][2], WrittenTo(1)[j][2]>>
        /\ \A j \in 1..Len(AcksOf(0)) :
             AcksOf(0)[j][3] = FailureByte => Len(WrittenTo(1)) < j
        /\ (hpc = "g_ack" /\ cmds[i][1] = 1) => c2p[0] = <<>>)
  /\ [][SendReturns =>
          LET code == cmds[i][2]
              n == Len(acks)
          IN /\ hres' <=> (/\ i = 2
                           /\ n >= 2
                           /\ acks[n - 1] = <<0, code, code>>
                           /\ acks[n] = <<1, code, code>>)
             /\ (i = 1 => (~hres' /\ Last(written) = <<0, code>> /\ written' = written
                           /\ p2c' = p2c))]_vars

\* C35 witness: the hunter container has answered the modify-grid command with
\* '*', send has returned false to container_modify and the host is back in
\* its main loop; the command was not written to the runner container
C35_Witness ==
  /\ hpc = "g_idle"
  /\ ~hres
  /\ Last(written) = <<0, "m">>
  /\ Last(acks) = <<0, "m", FailureByte>>
  /\ Len(WrittenTo(1)) = Len(WrittenTo(0)) - 1

----------------------------------------------------------------------------
(* The start of a GTK container *)

\* C36: the GTK container sends the ready byte '@' if and only if both the
\* module initialisation and the mapping of the shared buffers succeeded, and
\* it enters the command loop only after sending it; when either step fails
\* it writes no byte at all before it ends.
C36_ReadyIffStarted ==
  /\ [](\A c \in Containers : cpc[c] = "g_start" => c2p[c] = <<>>)
  /\ [][\A c \in Containers :
          /\ (cpc[c] = "g_start" /\ cpc'[c] # "g_start") =>
               LET started == funcs'[c] /\ prot'[c] = [ro |-> "r", rw |-> "rw"]
               IN /\ c2p'[c] = (IF started THEN <<ReadyByte>> ELSE <<>>)
                  /\ cpc'[c] = "g_loop" <=> started
                  /\ ~started => (Terminated(c)' /\ faults' # faults)
                  /\ started => faults' = faults
          /\ (cpc'[c] = "g_loop" /\ cpc[c] # "g_loop") =>
               cpc[c] \in {"g_start", "g_processing"}
          /\ Terminated(c) => Len(c2p'[c]) <= Len(c2p[c])]_vars

\* C36 witness: the hunter container has started and waits in its loop; the
\* runner container could not map the buffers and has ended without a byte in
\* its pipe, where the host waits for the ready byte
C36_Witness ==
  /\ nfork = 2
  /\ hpc = "g_ready"
  /\ cpc[0] = "g_loop"
  /\ funcs[0]
  /\ cpc[1] = "exited"
  /\ c2p[1] = <<>>
  /\ faults = {"map"}

----------------------------------------------------------------------------
(* The actors on the grid *)

\* the cell grid[y][x] an actor stands on
CellOf(p) == <<p.y, p.x>>
\* the guest's init has placed the hunter, the runners
HunterPlaced == \E n \in 1..Len(acks) : acks[n] = <<0, "i", "i">>
RunnersPlaced == \E n \in 1..Len(acks) : acks[n] = <<1, "i", "i">>
\* the actors that have been placed
Placed ==
  (IF HunterPlaced THEN {mem.rw.hunter} ELSE {})
    \cup (IF RunnersPlaced THEN {[x |-> mem.rw.runners[k].x, y |-> mem.rw.runners[k].y] :
                                   k \in Runners}
          ELSE {})
\* actor p has gone to q in a tick: one step at most in each direction, onto a
\* cell that is not blocked
MovedWell(p, q) ==
  CellOf(p) # CellOf(q) =>
    /\ q.x - p.x \in RandSteps
    /\ q.y - p.y \in RandSteps
    /\ mem.ro[CellOf(q)] # 1

\* C37: after any sequence of init and tick commands and host grid
\* modifications the hunter and every runner stand on interior cells: move
\* never places an actor on a cell whose grid value is 1, the border cells
\* always hold 1, and every cell move looks at (one step around an actor) is a
\* cell of the grid.
C37_ActorsOnInterior ==
  /\ [](/\ hpc # "g_create" => \A c \in Cells \ Interior : mem.ro[c] = 1
        /\ \A p \in Placed :
             /\ CellOf(p) \in Interior
             /\ \A rx \in RandSteps, ry \in RandSteps : <<p.y + ry, p.x + rx>> \in Cells)
  /\ [][\A c \in Containers :
          (cpc[c] = "g_processing" /\ cur[c] = "t" /\ cpc'[c] # "g_processing") =>
            /\ mem'.ro = mem.ro
            /\ MovedWell(mem.rw.hunter, mem'.rw.hunter)
            /\ \A k \in Runners : MovedWell(mem.rw.runners[k], mem'.rw.runners[k])]_vars

\* C37 witness: the host has flipped grid cells, and in the tick that followed
\* the hunter has left the cell its init put it on; the runner container is
\* handling the tick
C37_Witness ==
  /\ enable_host_modify
  /\ mem.ro \notin init_grid
  /\ Last(acks) = <<0, "t", "t">>
  /\ HunterPlaced /\ RunnersPlaced
  /\ mem.rw.hunter # [x |-> GridW \div 2, y |-> GridH \div 2]
  /\ cpc[1] = "g_processing"

----------------------------------------------------------------------------
(* The heap guard of the profile container: apply_heap_guard as a function of
   the linear memory's address, the offset malloc returned and the page size *)

\* a guard that masks the end of the allocation itself, without stepping one
\* page back first
heap_guard_at_end(wasm_memory_base, val, page_size) ==
  LET guard_size == ToInt(2 * page_size)
      guard_alloc == ToInt(val)
      guard_alloc_end == (wasm_memory_base + guard_alloc + guard_size) % Word
      end_page == BitAnd(guard_alloc_end, BitNot((page_size - 1) % Word))
  IN [addr |-> end_page, len |-> page_size]

\* apply_heap_guard: the arguments of mprotect. guard_size and guard_alloc are
\* ints, the addresses are size_t:
\*   end_page = (guard_alloc_end - page_size) & ~(page_size - 1)
heap_guard(wasm_memory_base, val, page_size) ==
  LET guard_size == ToInt(2 * page_size)
      guard_alloc == ToInt(val)
      guard_alloc_end == (wasm_memory_base + guard_alloc + guard_size) % Word
      end_page == BitAnd((guard_alloc_end - page_size) % Word,
                         BitNot((page_size - 1) % Word))
  IN [addr |-> end_page, len |-> page_size]

InitGuard ==
  /\ cmds = <<>>
  /\ InitProcesses
  /\ args \in [wasm_memory_base : MemoryBases, val : MallocVals, page_size : PageSizes]
  /\ ret = <<>>

apply_heap_guard ==
  /\ ret = <<>>
  /\ ret' = <<heap_guard(args.wasm_memory_base, args.val, args.page_size)>>
  /\ UNCHANGED <<protoVars, args>>

NextGuard == apply_heap_guard

SpecGuard == InitGuard /\ [][NextGuard]_vars

\* the start of the 2 * page_size bytes the guest malloc returned
GuardAllocStart == args.wasm_memory_base + args.val

\* C38: the heap guard protects exactly one whole page that lies inside the
\* guard reservation: for every offset the guest allocator returns and every
\* power-of-two page size, the range given to mprotect is one page long, starts
\* on a page boundary at or after the start of the 2 * page_size allocation
\* and ends at or before its end.
C38_GuardPageInside ==
  ret # <<>> =>
    /\ ret[1].len = args.page_size
    /\ ret[1].addr % args.page_size = 0
    /\ ret[1].addr >= GuardAllocStart
    /\ ret[1].addr + ret[1].len <= GuardAllocStart + 2 * args.page_size

\* C38 witness: the allocation starts off a page boundary and the guarded page
\* lies strictly inside it, with allocated bytes before and after
C38_Witness ==
  /\ ret # <<>>
  /\ args.val > 0
  /\ args.page_size >= 4
  /\ GuardAllocStart % args.page_size # 0
  /\ ret[1].addr > GuardAllocStart
  /\ ret[1].addr + ret[1].len < GuardAllocStart + 2 * args.page_size
====
